---- MODULE Spec2Model ----
(***************************************************************************)
(* Action lifecycle engine of the SmartGrid Home backend                   *)
(* (src/be/actions_service.py over the collection of src/be/db_fallback.py)*)
(*                                                                         *)
(* and the optimizer that proposes the actions (src/be/optimizer.py).      *)
(*                                                                         *)
(* Spec      every call of the service is one atomic step (calls that do   *)
(*           not overlap).                                                 *)
(* SpecConc  the calls are coroutines that may be suspended at every await *)
(*           of a collection operation.                                    *)
(* SpecOpt   one call of propose_actions on each of its inputs.            *)
(* SpecLLM   one call of propose_actions_with_llm, suspended at the await  *)
(*           of the LLM; SpecLLMFair adds the fairness of the event loop.  *)
(* SpecCalc  one call of a savings calculator, or of propose_actions on    *)
(*           one device, over a grid of standby and active draws.          *)
(* SpecAgent one request to agent_command_endpoint (src/be/server.py).     *)
(*                                                                         *)
(* Conventions: an id is a natural number (the numeral of mem_actions_<n>, *)
(* or an ObjectId); money and energy are integers in thousandths of a unit *)
(* (3504 is 3.504); a datetime is the ordinal of the datetime.now() call   *)
(* that produced it and None is NoTime.                                    *)
(***************************************************************************)
EXTENDS Integers, Sequences, FiniteSets, TLC

VARIABLES
    dbAvailable,   \* auth._db_available, fixed by _check_db at startup
    store,         \* the documents of the actions collection, in insertion order
    mem_counter,   \* db_fallback._mem_counter
    now,           \* number of datetime.now() calls made so far
    invoked,       \* per action id: how often _execute_single_action ran for it
    ret,           \* the last finished call: operation, arguments, outcome
    tasks          \* the coroutine, or the pending call, of each request slot

vars == <<dbAvailable, store, mem_counter, now, invoked, ret, tasks>>

\* ---------------------------------------------------------------- bounds
MaxDocs == 2        \* documents the collection may hold
MaxIds == 2         \* longest id list handed to execute_actions
MaxProposals == 2   \* longest proposal list handed to store_proposals
ConcDocs == 1       \* SpecConc: documents the collection may hold
ConcIds == 1        \* SpecConc: longest id list handed to execute_actions

\* ---------------------------------------------------------------- values
None == "None"
NoTime == 0

Homes == {"h1", "h2"}
Limits == {1, 50}

KnownActionTypes ==
    {"turn_off", "schedule", "smart_plug", "set_mode", "replace", "suggest_manual"}

\* ActionProposal values handed to store_proposals.  The third one carries an
\* action_type outside models.ActionType: store_proposals copies the attribute
\* without validating it.
ProposalInputs ==
    { [deviceId |-> "d1", label |-> "TV", action_type |-> "turn_off",
       parameters |-> [schedule_off_start |-> None, schedule_off_end |-> None,
                       eco_mode |-> None],
       estimated_annual_kwh_saved |-> 11684,
       estimated_annual_dollars_saved |-> 3504,
       estimated_co2_kg_saved |-> 4904,
       estimated_cost_usd |-> 0, payback_months |-> 0,
       feasibility_score |-> 700, rationale |-> "r1",
       safety_flags |-> {"requires_manual_action"}],
      [deviceId |-> "d2", label |-> "Lamp", action_type |-> "schedule",
       parameters |-> [schedule_off_start |-> "23:00", schedule_off_end |-> "07:00",
                       eco_mode |-> None],
       estimated_annual_kwh_saved |-> 5840,
       estimated_annual_dollars_saved |-> 1750,
       estimated_co2_kg_saved |-> 2450,
       estimated_cost_usd |-> 0, payback_months |-> 0,
       feasibility_score |-> 850, rationale |-> "r2",
       safety_flags |-> {}],
      [deviceId |-> "d1", label |-> "TV", action_type |-> "dim_lights",
       parameters |-> [schedule_off_start |-> None, schedule_off_end |-> None,
                       eco_mode |-> None],
       estimated_annual_kwh_saved |-> 2000,
       estimated_annual_dollars_saved |-> 600,
       estimated_co2_kg_saved |-> 840,
       estimated_cost_usd |-> 15000, payback_months |-> 300000,
       feasibility_score |-> 500, rationale |-> "r3",
       safety_flags |-> {}] }

\* Ids a caller may name: ids of stored documents, well-formed ids of no
\* document, and a string that bson.ObjectId rejects.
MalformedIds == {0}
IdInputs == MalformedIds \cup (1 .. MaxDocs)

RECURSIVE SeqsUpTo(_, _)
SeqsUpTo(S, n) ==
    IF n = 0 THEN {<<>>}
    ELSE LET shorter == SeqsUpTo(S, n - 1)
         IN shorter \cup {Append(s, x) : s \in {t \in shorter : Len(t) = n - 1}, x \in S}

\* ------------------------------------------------- db_fallback.py helpers
\* Fault: _next_id without the increment.
_next_id_stuck(counter) == counter

\* _next_id: the counter after the increment; the id is mem_<prefix>_<counter>.

_next_id(counter) == counter + 1

\* ObjectId(s) succeeds
ValidObjectId(s) == s \notin MalformedIds

\* _oid: the key to look up, or ValueError.
_oid(s) ==
    IF ~dbAvailable THEN [raised |-> FALSE, value |-> s]
    ELSE IF ValidObjectId(s) THEN [raised |-> FALSE, value |-> s]
    ELSE [raised |-> TRUE, value |-> s]

\* _match for filters whose values are scalars: every key of the filter
\* equals the document's value.
_match(doc, filt) == \A k \in DOMAIN filt : doc[k] = filt[k]

\* Fault: an update that also resets the savings snapshot.
_apply_update_all(doc, set) ==
    [k \in DOMAIN doc \cup DOMAIN set |->
        IF k \in DOMAIN set THEN set[k]
        ELSE IF k = "estimated_savings"
             THEN [f \in DOMAIN doc[k] |-> 0]
             ELSE doc[k]]

\* _apply_update for a $set of top-level keys: the keys of the $set are
\* assigned, every other key of the document is kept.
_apply_update(doc, set) ==
    [k \in DOMAIN doc \cup DOMAIN set |-> IF k \in DOMAIN set THEN set[k] ELSE doc[k]]

Matching(docs, filt) == {i \in 1 .. Len(docs) : _match(docs[i], filt)}

FirstMatch(docs, filt) ==
    CHOOSE i \in Matching(docs, filt) : \A j \in Matching(docs, filt) : i <= j

\* MemCollection.find_one: <<copy of the first matching document>>, or <<>> for None.
find_one(docs, filt) ==
    IF Matching(docs, filt) = {} THEN <<>> ELSE <<docs[FirstMatch(docs, filt)]>>

\* MemCollection.find: copies of the matching documents, in store order.
find(docs, filt) == SelectSeq(docs, LAMBDA d : _match(d, filt))

\* MemCollection.update_one (upsert=False): the first match is updated in place.
update_one(docs, filt, set) ==
    IF Matching(docs, filt) = {} THEN docs
    ELSE [docs EXCEPT ![FirstMatch(docs, filt)] = _apply_update(@, set)]

\* MemCollection.insert_one: self._store[oid] = doc replaces the value of a key
\* already present and appends a new key.  (The Motor collection has the server
\* assign a fresh ObjectId; the same counter stands for it.)
insert_one(docs, counter, doc) ==
    LET oid == _next_id(counter)
        d == [k \in DOMAIN doc \cup {"_id"} |-> IF k = "_id" THEN oid ELSE doc[k]]
        same == {i \in 1 .. Len(docs) : docs[i]._id = oid}
    IN [docs |-> IF same = {} THEN Append(docs, d)
                 ELSE [i \in 1 .. Len(docs) |-> IF i \in same THEN d ELSE docs[i]],
        counter |-> oid,
        inserted_id |-> oid]

\* _MemCursor.sort(key, -1): list.sort(reverse=True) is stable.
RECURSIVE InsertDesc(_, _, _)
InsertDesc(sorted, d, key) ==
    IF sorted = <<>> THEN <<d>>
    ELSE IF Head(sorted)[key] >= d[key]
         THEN <<Head(sorted)>> \o InsertDesc(Tail(sorted), d, key)
         ELSE <<d>> \o sorted

RECURSIVE sort_desc(_, _)
sort_desc(docs, key) ==
    IF docs = <<>> THEN <<>>
    ELSE InsertDesc(sort_desc(SubSeq(docs, 1, Len(docs) - 1), key), docs[Len(docs)], key)

\* Fault: a cut that keeps the whole list.
LimitAll(docs, n) == docs

\* _MemCursor.limit
limit(docs, n) == SubSeq(docs, 1, IF n < Len(docs) THEN n ELSE Len(docs))

\* ------------------------------------------------------ actions_service.py
\* _serialize: _id becomes id.
_serialize(doc) ==
    [k \in (DOMAIN doc \ {"_id"}) \cup {"id"} |-> IF k = "id" THEN doc._id ELSE doc[k]]

\* The document store_proposals builds for proposal p at time createdAt.
ProposalDoc(home_id, p, createdAt) ==
    [homeId |-> home_id,
     deviceId |-> p.deviceId,
     label |-> p.label,
     action_type |-> p.action_type,
     parameters |-> p.parameters,
     status |-> "proposed",
     agentId |-> "ai_agent_v1",
     estimated_savings |->
        [dollars_per_year |-> p.estimated_annual_dollars_saved,
         kwh_per_year |-> p.estimated_annual_kwh_saved,
         co2_kg_per_year |-> p.estimated_co2_kg_saved,
         cost_usd |-> p.estimated_cost_usd,
         payback_months |-> p.payback_months],
     feasibility_score |-> p.feasibility_score,
     rationale |-> p.rationale,
     safety_flags |-> p.safety_flags,
     createdAt |-> createdAt,
     executedAt |-> NoTime,
     revertedAt |-> NoTime]

\* The loop of store_proposals over the proposals still to insert.
RECURSIVE StoreLoop(_, _, _)
StoreLoop(st, home_id, proposals) ==
    IF proposals = <<>> THEN st
    ELSE LET t == st.now + 1
             ins == insert_one(st.docs, st.counter, ProposalDoc(home_id, Head(proposals), t))
         IN StoreLoop([docs |-> ins.docs, counter |-> ins.counter, now |-> t,
                       ids |-> Append(st.ids, ins.inserted_id)],
                      home_id, Tail(proposals))

\* Fault: an executor that reports success for every action_type.
_execute_single_action_ok(action_type, device_id, parameters) ==
    [success |-> TRUE, action |-> action_type, error |-> None]

\* _execute_single_action: the six simulated kinds succeed, any other
\* action_type is reported as a failure.
_execute_single_action(action_type, device_id, parameters) ==
    IF action_type \in KnownActionTypes
    THEN [success |-> TRUE, action |-> action_type, error |-> None]
    ELSE [success |-> FALSE, action |-> None, error |-> "Unknown action type"]

ExecutableStatuses == {"proposed", "scheduled"}

\* Fault: execute_actions without its status guard.
CanExecuteAny(status) == TRUE

\* The status guard of execute_actions.
CanExecute(status) == status \in ExecutableStatuses

\* Fault: revert_action without its status guard.
CanRevertAny(status) == TRUE

\* The status guard of revert_action.
CanRevert(status) == status = "executed"

\* Fault: an execution that parks the action as scheduled.
ExecuteSetScheduled(stamp) == [status |-> "scheduled", executedAt |-> stamp]

ExecuteSet(stamp) == [status |-> "executed", executedAt |-> stamp]

FailedSet == [status |-> "failed"]

\* Fault: a revert that clears the time of the execution.
RevertSetClearsExecuted(stamp) ==
    [status |-> "reverted", revertedAt |-> stamp, executedAt |-> NoTime]

RevertSet(stamp) == [status |-> "reverted", revertedAt |-> stamp]

ResultNotFound(aid) ==
    [id |-> aid, status |-> "not_found", error |-> "Action not found", details |-> None]

ResultConflict(aid, status) ==
    [id |-> aid, status |-> status, error |-> "Cannot execute action in state",
     details |-> None]

ResultExecuted(aid, execution_result) ==
    [id |-> aid, status |-> "executed", error |-> None, details |-> execution_result]

ResultFailed(aid, execution_result) ==
    [id |-> aid, status |-> "failed", error |-> execution_result.error, details |-> None]

\* One pass of the body of the loop of execute_actions for id aid, from the
\* loop state st = [docs, now, invoked, results, raised].
ExecOne(st, aid) ==
    LET key == _oid(aid)
        found == find_one(st.docs, [_id |-> key.value])
    IN  IF key.raised THEN [st EXCEPT !.raised = TRUE]
        ELSE IF found = <<>>
        THEN [st EXCEPT !.results = Append(@, ResultNotFound(aid))]
        ELSE IF ~CanExecute(found[1].status)
        THEN [st EXCEPT !.results = Append(@, ResultConflict(aid, found[1].status))]
        ELSE LET doc == found[1]
                 execution_result ==
                    _execute_single_action(doc.action_type, doc.deviceId, doc.parameters)
                 ran == [st.invoked EXCEPT ![aid] = @ + 1]
             IN  IF execution_result.success
                 THEN [st EXCEPT
                         !.docs = update_one(@, [_id |-> key.value], ExecuteSet(st.now + 1)),
                         !.now = @ + 1,
                         !.invoked = ran,
                         !.results = Append(@, ResultExecuted(aid, execution_result))]
                 ELSE [st EXCEPT
                         !.docs = update_one(@, [_id |-> key.value], FailedSet),
                         !.invoked = ran,
                         !.results = Append(@, ResultFailed(aid, execution_result))]

\* The loop of execute_actions; an exception ends it.
RECURSIVE ExecLoop(_, _)
ExecLoop(st, action_ids) ==
    IF action_ids = <<>> \/ st.raised THEN st
    ELSE ExecLoop(ExecOne(st, Head(action_ids)), Tail(action_ids))

\* round(x, 2) on thousandths; a tie goes to the even hundredth.
Round2(x) ==
    LET q == x \div 10
        r == x % 10
    IN  IF r < 5 THEN 10 * q
        ELSE IF r > 5 THEN 10 * (q + 1)
        ELSE IF q % 2 = 0 THEN 10 * q ELSE 10 * (q + 1)

\* Fault: a filter that forgets the status.
SavingsFilterAnyStatus(home_id) == [homeId |-> home_id]

\* The filter of compute_action_savings.
SavingsFilter(home_id) == [homeId |-> home_id, status |-> "executed"]

\* The accumulation loop of compute_action_savings over the cursor.
RECURSIVE SavingsLoop(_, _)
SavingsLoop(acc, cursor) ==
    IF cursor = <<>> THEN acc
    ELSE LET savings == Head(cursor).estimated_savings
         IN SavingsLoop([kwh |-> acc.kwh + savings.kwh_per_year,
                         dollars |-> acc.dollars + savings.dollars_per_year,
                         co2 |-> acc.co2 + savings.co2_kg_per_year,
                         count |-> acc.count + 1],
                        Tail(cursor))

compute_action_savings(docs, home_id) ==
    LET acc == SavingsLoop([kwh |-> 0, dollars |-> 0, co2 |-> 0, count |-> 0],
                           find(docs, SavingsFilter(home_id)))
    IN [executed_actions |-> acc.count,
        total_annual_kwh_saved |-> Round2(acc.kwh),
        total_annual_dollars_saved |-> Round2(acc.dollars),
        total_annual_co2_kg_saved |-> Round2(acc.co2)]

list_actions(docs, home_id, n) ==
    LET cursor == limit(sort_desc(find(docs, [homeId |-> home_id]), "createdAt"), n)
    IN [i \in 1 .. Len(cursor) |-> _serialize(cursor[i])]

\* ------------------------------------------------------------ state machine
IdleTask == [pc |-> "idle"]

Tasks == {"t1", "t2"}

NoCall == [op |-> "none", args |-> <<>>, raised |-> FALSE, result |-> None]

Init ==
    /\ dbAvailable \in BOOLEAN
    /\ store = <<>>
    /\ mem_counter = 0
    /\ now = 0
    /\ invoked = [i \in IdInputs |-> 0]
    /\ ret = NoCall
    /\ tasks = [t \in Tasks |-> IdleTask]

\* store_proposals(home_id, proposals)
StoreProposals(home_id, proposals) ==
    /\ Len(store) + Len(proposals) <= MaxDocs
    /\ LET st == StoreLoop([docs |-> store, counter |-> mem_counter, now |-> now,
                            ids |-> <<>>], home_id, proposals)
       IN /\ store' = st.docs
          /\ mem_counter' = st.counter
          /\ now' = st.now
          /\ ret' = [op |-> "store_proposals", args |-> <<home_id, proposals>>,
                     raised |-> FALSE, result |-> st.ids]
    /\ UNCHANGED <<dbAvailable, invoked, tasks>>

\* execute_actions(action_ids)
ExecuteActions(action_ids) ==
    /\ LET st == ExecLoop([docs |-> store, now |-> now, invoked |-> invoked,
                           results |-> <<>>, raised |-> FALSE], action_ids)
       IN /\ store' = st.docs
          /\ now' = st.now
          /\ invoked' = st.invoked
          /\ ret' = [op |-> "execute_actions", args |-> <<action_ids>>,
                     raised |-> st.raised, result |-> st.results]
    /\ UNCHANGED <<dbAvailable, mem_counter, tasks>>

\* revert_action(action_id)
RevertAction(action_id) ==
    LET key == _oid(action_id)
        found == find_one(store, [_id |-> key.value])
        call(raised, result) == [op |-> "revert_action", args |-> <<action_id>>,
                                 raised |-> raised, result |-> result]
    IN  /\ IF key.raised
           THEN /\ ret' = call(TRUE, None)
                /\ UNCHANGED <<store, now>>
           ELSE IF found = <<>>
           THEN /\ ret' = call(FALSE, [success |-> FALSE, error |-> "Action not found",
                                       status |-> None])
                /\ UNCHANGED <<store, now>>
           ELSE IF ~CanRevert(found[1].status)
           THEN /\ ret' = call(FALSE, [success |-> FALSE,
                                       error |-> "Cannot revert action in state",
                                       status |-> found[1].status])
                /\ UNCHANGED <<store, now>>
           ELSE /\ store' = update_one(store, [_id |-> key.value], RevertSet(now + 1))
                /\ now' = now + 1
                /\ ret' = call(FALSE, [success |-> TRUE, error |-> None,
                                       status |-> "reverted"])
        /\ UNCHANGED <<dbAvailable, mem_counter, invoked, tasks>>

\* list_actions(home_id, limit)
ListActions(home_id, n) ==
    /\ ret' = [op |-> "list_actions", args |-> <<home_id, n>>, raised |-> FALSE,
               result |-> list_actions(store, home_id, n)]
    /\ UNCHANGED <<dbAvailable, store, mem_counter, now, invoked, tasks>>

\* compute_action_savings(home_id)
ComputeActionSavings(home_id) ==
    /\ ret' = [op |-> "compute_action_savings", args |-> <<home_id>>, raised |-> FALSE,
               result |-> compute_action_savings(store, home_id)]
    /\ UNCHANGED <<dbAvailable, store, mem_counter, now, invoked, tasks>>

Next ==
    \/ \E h \in Homes, ps \in SeqsUpTo(ProposalInputs, MaxProposals) : StoreProposals(h, ps)
    \/ \E ids \in SeqsUpTo(IdInputs, MaxIds) : ExecuteActions(ids)
    \/ \E id \in IdInputs : RevertAction(id)
    \/ \E h \in Homes, n \in Limits : ListActions(h, n)
    \/ \E h \in Homes : ComputeActionSavings(h)

Spec == Init /\ [][Next]_vars

\* ---------------------------------------------- overlapping calls (SpecConc)
\* A request slot runs one call at a time.  A coroutine is suspended at each
\* await of a collection operation; the operation itself takes effect at once,
\* and everything between two awaits runs without interruption.  The awaits of
\* the in-memory MemCollection never yield to the event loop, so overlapping
\* happens with the Motor collection only: dbAvailable is TRUE here.
\* store_proposals stays one step: what it inserts is visible to the other
\* calls only by id, and it reads nothing.
InitConc ==
    /\ dbAvailable = TRUE
    /\ store = <<>>
    /\ mem_counter = 0
    /\ now = 0
    /\ invoked = [i \in IdInputs |-> 0]
    /\ ret = NoCall
    /\ tasks = [t \in Tasks |-> IdleTask]

\* The request handler calls execute_actions(action_ids): the coroutine runs up
\* to its first await, find_one for the first id.
BeginExecute(t, action_ids) ==
    /\ tasks[t].pc = "idle"
    /\ action_ids # <<>>
    /\ tasks' = [tasks EXCEPT ![t] =
                    [pc |-> "exec_find", action_ids |-> action_ids, k |-> 1,
                     results |-> <<>>, set |-> FailedSet, result |-> None]]
    /\ UNCHANGED <<dbAvailable, store, mem_counter, now, invoked, ret>>

\* After the result for id k is appended: the next pass of the loop up to its
\* find_one, or return results.
ExecContinue(t, results) ==
    IF tasks[t].k < Len(tasks[t].action_ids)
    THEN /\ tasks' = [tasks EXCEPT ![t].pc = "exec_find", ![t].k = @ + 1,
                                   ![t].results = results]
         /\ UNCHANGED ret
    ELSE /\ tasks' = [tasks EXCEPT ![t] = IdleTask]
         /\ ret' = [op |-> "execute_actions", args |-> <<tasks[t].action_ids>>,
                    raised |-> FALSE, result |-> results]

\* find_one of execute_actions answers; the coroutine runs on to the await of
\* update_one (guard passed, executor run, datetime.now() read), or appends the
\* not_found or state-conflict result, or _oid raises.
ExecFind(t) ==
    /\ tasks[t].pc = "exec_find"
    /\ LET aid == tasks[t].action_ids[tasks[t].k]
           key == _oid(aid)
           found == find_one(store, [_id |-> key.value])
       IN  IF key.raised
           THEN /\ tasks' = [tasks EXCEPT ![t] = IdleTask]
                /\ ret' = [op |-> "execute_actions", args |-> <<tasks[t].action_ids>>,
                           raised |-> TRUE, result |-> tasks[t].results]
                /\ UNCHANGED <<now, invoked>>
           ELSE IF found = <<>>
           THEN /\ ExecContinue(t, Append(tasks[t].results, ResultNotFound(aid)))
                /\ UNCHANGED <<now, invoked>>
           ELSE IF ~CanExecute(found[1].status)
           THEN /\ ExecContinue(t, Append(tasks[t].results,
                                          ResultConflict(aid, found[1].status)))
                /\ UNCHANGED <<now, invoked>>
           ELSE LET doc == found[1]
                    execution_result ==
                        _execute_single_action(doc.action_type, doc.deviceId,
                                               doc.parameters)
                IN  /\ invoked' = [invoked EXCEPT ![aid] = @ + 1]
                    /\ IF execution_result.success
                       THEN /\ now' = now + 1
                            /\ tasks' = [tasks EXCEPT
                                  ![t].pc = "exec_update",
                                  ![t].set = ExecuteSet(now + 1),
                                  ![t].result = ResultExecuted(aid, execution_result)]
                       ELSE /\ now' = now
                            /\ tasks' = [tasks EXCEPT
                                  ![t].pc = "exec_update",
                                  ![t].set = FailedSet,
                                  ![t].result = ResultFailed(aid, execution_result)]
                    /\ UNCHANGED ret
    /\ UNCHANGED <<dbAvailable, store, mem_counter>>

\* update_one of execute_actions takes effect; the coroutine appends the result
\* and runs on.
ExecUpdate(t) ==
    /\ tasks[t].pc = "exec_update"
    /\ store' = update_one(store, [_id |-> tasks[t].action_ids[tasks[t].k]], tasks[t].set)
    /\ ExecContinue(t, Append(tasks[t].results, tasks[t].result))
    /\ UNCHANGED <<dbAvailable, mem_counter, now, invoked>>

\* The request handler calls revert_action(action_id).
BeginRevert(t, action_id) ==
    /\ tasks[t].pc = "idle"
    /\ tasks' = [tasks EXCEPT ![t] =
                    [pc |-> "revert_find", action_ids |-> <<action_id>>, k |-> 1,
                     results |-> <<>>, set |-> FailedSet, result |-> None]]
    /\ UNCHANGED <<dbAvailable, store, mem_counter, now, invoked, ret>>

\* find_one of revert_action answers.
RevertFind(t) ==
    /\ tasks[t].pc = "revert_find"
    /\ LET action_id == tasks[t].action_ids[1]
           key == _oid(action_id)
           found == find_one(store, [_id |-> key.value])
           call(raised, result) == [op |-> "revert_action", args |-> <<action_id>>,
                                    raised |-> raised, result |-> result]
       IN  IF key.raised
           THEN /\ tasks' = [tasks EXCEPT ![t] = IdleTask]
                /\ ret' = call(TRUE, None)
                /\ now' = now
           ELSE IF found = <<>>
           THEN /\ tasks' = [tasks EXCEPT ![t] = IdleTask]
                /\ ret' = call(FALSE, [success |-> FALSE, error |-> "Action not found",
                                       status |-> None])
                /\ now' = now
           ELSE IF ~CanRevert(found[1].status)
           THEN /\ tasks' = [tasks EXCEPT ![t] = IdleTask]
                /\ ret' = call(FALSE, [success |-> FALSE,
                                       error |-> "Cannot revert action in state",
                                       status |-> found[1].status])
                /\ now' = now
           ELSE /\ tasks' = [tasks EXCEPT ![t].pc = "revert_update",
                                          ![t].set = RevertSet(now + 1)]
                /\ now' = now + 1
                /\ UNCHANGED ret
    /\ UNCHANGED <<dbAvailable, store, mem_counter, invoked>>

\* update_one of revert_action takes effect; the call returns.
RevertUpdate(t) ==
    /\ tasks[t].pc = "revert_update"
    /\ store' = update_one(store, [_id |-> tasks[t].action_ids[1]], tasks[t].set)
    /\ tasks' = [tasks EXCEPT ![t] = IdleTask]
    /\ ret' = [op |-> "revert_action", args |-> <<tasks[t].action_ids[1]>>,
               raised |-> FALSE,
               result |-> [success |-> TRUE, error |-> None, status |-> "reverted"]]
    /\ UNCHANGED <<dbAvailable, mem_counter, now, invoked>>

NextConc ==
    \/ \E h \in Homes, ps \in SeqsUpTo(ProposalInputs, ConcDocs) :
          Len(store) + Len(ps) <= ConcDocs /\ StoreProposals(h, ps)
    \/ \E t \in Tasks, ids \in SeqsUpTo(IdInputs, ConcIds) : BeginExecute(t, ids)
    \/ \E t \in Tasks : ExecFind(t)
    \/ \E t \in Tasks : ExecUpdate(t)
    \/ \E t \in Tasks, id \in IdInputs : BeginRevert(t, id)
    \/ \E t \in Tasks : RevertFind(t)
    \/ \E t \in Tasks : RevertUpdate(t)

SpecConc == InitConc /\ [][NextConc]_vars

\* ============================================================= optimizer.py
\* Conventions of the optimizer model: watts are integers in tenths of a watt,
\* hours are whole hours, a rate is in hundredths per kWh and a reduction in
\* tenths.  The calculators compute in exact rationals [n, d] (d > 0, reduced)
\* where the code computes in binary floating point; the results are rounded
\* at the same places as in the code and handed on in thousandths, like the
\* money of the action store.  A str is a sequence of one-character strings.

\* ------------------------------------------------------------- arithmetic
\* The element of a one-element set: { F(x) : x \in {e} } evaluates e once
\* before F is applied to it.
TheOne(S) == CHOOSE x \in S : TRUE

Abs(x) == IF x < 0 THEN 0 - x ELSE x

RECURSIVE GCD(_, _)
GCD(a, b) == IF b = 0 THEN a ELSE GCD(b, a % b)

\* The rational n/d in lowest terms.
Frac(n, d) ==
    LET g == GCD(Abs(n), d)
    IN  IF n = 0 THEN [n |-> 0, d |-> 1] ELSE [n |-> n \div g, d |-> d \div g]

Whole(k) == [n |-> k, d |-> 1]

\* float * float
FMul(x, y) ==
    LET a == Frac(x.n, y.d)
        b == Frac(y.n, x.d)
    IN  [n |-> a.n * b.n, d |-> a.d * b.d]

\* float / float for a divisor > 0
FDiv(x, y) == FMul(x, [n |-> y.d, d |-> y.n])

\* float - float
FSub(x, y) == Frac(x.n * y.d - y.n * x.d, x.d * y.d)

\* float + float
FAdd(x, y) == Frac(x.n * y.d + y.n * x.d, x.d * y.d)

FLess(x, y) == x.n * y.d < y.n * x.d

FMax(x, y) == IF FLess(x, y) THEN y ELSE x

\* The integer nearest to x, a tie going to the even one (Python's round).
RoundHalfEven(x) ==
    LET q == x.n \div x.d
        r == x.n % x.d
    IN  IF 2 * r < x.d THEN q
        ELSE IF 2 * r > x.d THEN q + 1
        ELSE IF q % 2 = 0 THEN q ELSE q + 1

\* round(x, 2) and round(x, 1), in thousandths.
RoundTo2(x) == 10 * RoundHalfEven(FMul(x, Whole(100)))

RoundTo1(x) == 100 * RoundHalfEven(FMul(x, Whole(10)))

\* ----------------------------------------------------------------- strings
LowerOf ==
    [c \in {"A", "B", "C", "D", "E", "F", "G", "H", "I", "J", "K", "L", "M", "N",
            "O", "P", "Q", "R", "S", "T", "U", "V", "W", "X", "Y", "Z"} |->
        CASE c = "A" -> "a" [] c = "B" -> "b" [] c = "C" -> "c" [] c = "D" -> "d"
          [] c = "E" -> "e" [] c = "F" -> "f" [] c = "G" -> "g" [] c = "H" -> "h"
          [] c = "I" -> "i" [] c = "J" -> "j" [] c = "K" -> "k" [] c = "L" -> "l"
          [] c = "M" -> "m" [] c = "N" -> "n" [] c = "O" -> "o" [] c = "P" -> "p"
          [] c = "Q" -> "q" [] c = "R" -> "r" [] c = "S" -> "s" [] c = "T" -> "t"
          [] c = "U" -> "u" [] c = "V" -> "v" [] c = "W" -> "w" [] c = "X" -> "x"
          [] c = "Y" -> "y" [] c = "Z" -> "z"]

\* str.lower()
lower(s) == [i \in 1 .. Len(s) |-> IF s[i] \in DOMAIN LowerOf THEN LowerOf[s[i]] ELSE s[i]]

\* name in s
contains(s, name) ==
    \E i \in 0 .. (Len(s) - Len(name)) : SubSeq(s, i + 1, i + Len(name)) = name

\* str.split(sep) for a one-character separator.
RECURSIVE split(_, _)
split(s, sep) ==
    IF \A i \in 1 .. Len(s) : s[i] # sep THEN <<s>>
    ELSE LET k == CHOOSE i \in 1 .. Len(s) :
                      s[i] = sep /\ \A j \in 1 .. (i - 1) : s[j] # sep
         IN <<SubSeq(s, 1, k - 1)>> \o split(SubSeq(s, k + 1, Len(s)), sep)

DigitOf ==
    [c \in {"0", "1", "2", "3", "4", "5", "6", "7", "8", "9"} |->
        CASE c = "0" -> 0 [] c = "1" -> 1 [] c = "2" -> 2 [] c = "3" -> 3
          [] c = "4" -> 4 [] c = "5" -> 5 [] c = "6" -> 6 [] c = "7" -> 7
          [] c = "8" -> 8 [] c = "9" -> 9]

RECURSIVE DigitsValue(_)
DigitsValue(s) ==
    IF s = <<>> THEN 0 ELSE 10 * DigitsValue(SubSeq(s, 1, Len(s) - 1)) + DigitOf[s[Len(s)]]

\* int(s) for a str of ASCII digits; anything else raises ValueError here
\* (sign, blanks and underscores are not among the inputs).
int(s) ==
    IF s # <<>> /\ \A i \in 1 .. Len(s) : s[i] \in DOMAIN DigitOf
    THEN [raised |-> FALSE, value |-> DigitsValue(s)]
    ELSE [raised |-> TRUE, value |-> 0]

\* ------------------------------------------------------ savings calculators
SMART_PLUG_COST == 15000

\* ECO_MODE_REDUCTION = 0.15
ECO_MODE_REDUCTION == Frac(15, 100)

PROFILE_ACTIVE_HOURS == [light |-> 2, typical |-> 4, heavy |-> 8]

\* dict.get(key, default)
get(d, key, default) == IF key \in DOMAIN d THEN d[key] ELSE default

\* device.get("power", {}).get(key, 0), as a rational number of watts
Watts(device, key) == Frac(get(get(device, "power", <<>>), key, 0), 10)

\* device.get("active_hours_per_day", PROFILE_ACTIVE_HOURS.get(profile, 4.0))
ActiveHours(device, assumptions) ==
    get(device, "active_hours_per_day", get(PROFILE_ACTIVE_HOURS, assumptions.profile, 4))

Rate(assumptions) == Frac(assumptions.rate_per_kwh, 100)

Co2Factor(assumptions) == Frac(assumptions.kg_co2_per_kwh, 100)

StandbyReduction(assumptions) == Frac(assumptions.standby_reduction, 10)

\* x * 365 / 1000
PerYearKwh(x) == FMul(x, Frac(365, 1000))

\* ActionParameters with its defaults.
ActionParameters ==
    [when |-> None, plug_model |-> None, cost_usd |-> 0, standby_reduction |-> 800,
     schedule_off_start |-> None, schedule_off_end |-> None, eco_mode |-> None,
     replacement_model |-> None, replacement_cost_usd |-> 0]

\* The ActionProposal every calculator builds from its kWh saving.
Proposal(device, assumptions, action_type, parameters, kwh_saved, cost, payback, feasibility_score, rationale, safety_flags) ==
    [deviceId |-> get(device, "id", <<>>),
     label |-> get(device, "label", <<"U", "n", "k", "n", "o", "w", "n">>),
     action_type |-> action_type,
     parameters |-> parameters,
     estimated_annual_kwh_saved |-> RoundTo2(kwh_saved),
     estimated_annual_dollars_saved |-> RoundTo2(FMul(kwh_saved, Rate(assumptions))),
     estimated_co2_kg_saved |-> RoundTo2(FMul(kwh_saved, Co2Factor(assumptions))),
     estimated_cost_usd |-> cost,
     payback_months |-> payback,
     feasibility_score |-> feasibility_score,
     rationale |-> rationale,
     safety_flags |-> safety_flags]

\* A calculator returns None, returns a proposal, or raises.
NoProposal == <<>>

Returned(value) == [raised |-> FALSE, value |-> value]

Raised == [raised |-> TRUE, value |-> NoProposal]

\* Fault: no saving pays back at once.
PaybackZeroWithoutSaving(cost, dollars_saved) ==
    IF dollars_saved.n > 0
    THEN FMul(FDiv(Frac(cost, 1000), dollars_saved), Whole(12))
    ELSE Whole(0)

\* (cost / dollars_saved * 12) if dollars_saved > 0 else 999
Payback(cost, dollars_saved) ==
    IF dollars_saved.n > 0
    THEN FMul(FDiv(Frac(cost, 1000), dollars_saved), Whole(12))
    ELSE Whole(999)

\* Fault: no least standby draw for a smart plug.
SmartPlugThresholdNone == Whole(0)

\* if standby_w < 0.5: return None
SmartPlugThreshold == Frac(1, 2)

_compute_smart_plug_saving(device, assumptions) ==
    LET standby_w == Watts(device, "standby_watts_typical")
        standby_hours == 24 - ActiveHours(device, assumptions)
        kwh_saved == PerYearKwh(FMul(FMul(standby_w, StandbyReduction(assumptions)),
                                     Whole(standby_hours)))
        dollars_saved == FMul(kwh_saved, Rate(assumptions))
        payback == Payback(SMART_PLUG_COST, dollars_saved)
    IN  IF FLess(standby_w, SmartPlugThreshold) THEN Returned(NoProposal)
        ELSE Returned(Proposal(device, assumptions, "smart_plug",
                 [ActionParameters EXCEPT
                     !.plug_model = "generic_wifi",
                     !.cost_usd = SMART_PLUG_COST,
                     !.standby_reduction = 100 * assumptions.standby_reduction],
                 kwh_saved, SMART_PLUG_COST, RoundTo1(payback), 900,
                 <<"Smart plug eliminates standby draw during idle time.">>, <<>>))

\* The try block of _compute_schedule_saving: the hours of the first quiet
\* range, or 8 when anything in it raises.
ScheduleHours(quiet_hours) ==
    IF quiet_hours = <<>> THEN 8
    ELSE LET parts == split(quiet_hours[1], "-")
             start_h == int(split(parts[1], ":")[1])
             end_h == IF Len(parts) < 2 THEN Raised ELSE int(split(parts[2], ":")[1])
         IN  IF start_h.raised \/ end_h.raised THEN 8
             ELSE (end_h.value - start_h.value) % 24

_compute_schedule_saving(device, assumptions, quiet_hours) ==
    LET standby_w == Watts(device, "standby_watts_typical")
        schedule_hours == ScheduleHours(quiet_hours)
        kwh_saved == PerYearKwh(FMul(standby_w, Whole(schedule_hours)))
        dollars_saved == FMul(kwh_saved, Rate(assumptions))
        parts == split(quiet_hours[1], "-")
    IN  IF FLess(dollars_saved, Frac(1, 2)) THEN Returned(NoProposal)
        ELSE IF quiet_hours # <<>> /\ Len(parts) < 2 THEN Raised
        ELSE Returned(Proposal(device, assumptions, "schedule",
                 [ActionParameters EXCEPT
                     !.schedule_off_start =
                         IF quiet_hours # <<>> THEN parts[1] ELSE <<"2", "3", ":", "0", "0">>,
                     !.schedule_off_end =
                         IF quiet_hours # <<>> THEN parts[2] ELSE <<"0", "7", ":", "0", "0">>,
                     !.cost_usd = 0],
                 kwh_saved, 0, 0, 850,
                 <<"Scheduling off during quiet hours saves eliminated standby.">>, <<>>))

eco_categories ==
    { <<"T", "e", "l", "e", "v", "i", "s", "i", "o", "n">>, <<"T", "V">>,
      <<"M", "o", "n", "i", "t", "o", "r">>, <<"L", "a", "p", "t", "o", "p">>,
      <<"A", "i", "r", " ", "C", "o", "n", "d", "i", "t", "i", "o", "n", "e", "r">>,
      <<"W", "a", "s", "h", "i", "n", "g", " ", "M", "a", "c", "h", "i", "n", "e">>,
      <<"D", "r", "y", "e", "r">>,
      <<"R", "e", "f", "r", "i", "g", "e", "r", "a", "t", "o", "r">> }

_compute_eco_mode_saving(device, assumptions) ==
    LET active_w == Watts(device, "active_watts_typical")
        active_hours == ActiveHours(device, assumptions)
        watts_saved == FMul(active_w, ECO_MODE_REDUCTION)
        kwh_saved == PerYearKwh(FMul(watts_saved, Whole(active_hours)))
        dollars_saved == FMul(kwh_saved, Rate(assumptions))
    IN  IF FLess(dollars_saved, Whole(1)) THEN Returned(NoProposal)
        ELSE IF get(device, "category", <<>>) \notin eco_categories THEN Returned(NoProposal)
        ELSE Returned(Proposal(device, assumptions, "set_mode",
                 [ActionParameters EXCEPT !.eco_mode = "eco", !.cost_usd = 0],
                 kwh_saved, 0, 0, 750,
                 <<"Eco mode reduces active power during daily use.">>, <<>>))

\* Fault: the least standby draw of the smart plug taken for turn_off.
TurnOffThresholdHalf == Frac(1, 2)

\* if standby_w < 1.0: return None
TurnOffThreshold == Whole(1)

_compute_turn_off_saving(device, assumptions) ==
    LET standby_w == Watts(device, "standby_watts_typical")
        standby_hours == 24 - ActiveHours(device, assumptions)
        kwh_saved == PerYearKwh(FMul(standby_w, Whole(standby_hours)))
    IN  IF FLess(standby_w, TurnOffThreshold) THEN Returned(NoProposal)
        ELSE Returned(Proposal(device, assumptions, "turn_off",
                 [ActionParameters EXCEPT !.cost_usd = 0],
                 kwh_saved, 0, 0, 700,
                 <<"Manually unplugging when not in use eliminates standby.">>,
                 <<"requires_manual_action">>))

\* replacement_costs.get(category, 200), in thousandths
replacement_cost(category) ==
    CASE category \in { <<"T", "e", "l", "e", "v", "i", "s", "i", "o", "n">>,
                        <<"T", "V">> } -> 400000
      [] category = <<"R", "e", "f", "r", "i", "g", "e", "r", "a", "t", "o", "r">> -> 800000
      [] category = <<"W", "a", "s", "h", "i", "n", "g", " ", "M", "a", "c", "h", "i", "n", "e">>
            -> 600000
      [] category = <<"D", "r", "y", "e", "r">> -> 700000
      [] category = <<"M", "i", "c", "r", "o", "w", "a", "v", "e">> -> 150000
      [] category = <<"A", "i", "r", " ", "C", "o", "n", "d", "i", "t", "i", "o", "n", "e", "r">>
            -> 500000
      [] category = <<"S", "p", "a", "c", "e", " ", "H", "e", "a", "t", "e", "r">> -> 80000
      [] category = <<"O", "v", "e", "n">> -> 1200000
      [] category = <<"M", "o", "n", "i", "t", "o", "r">> -> 250000
      [] category = <<"L", "a", "p", "t", "o", "p">> -> 800000
      [] category = <<"L", "i", "g", "h", "t", " ", "B", "u", "l", "b">> -> 8000
      [] category \in { <<"T", "o", "a", "s", "t", "e", "r">>,
                        <<"H", "a", "i", "r", " ", "D", "r", "y", "e", "r">> } -> 40000
      [] category = <<"P", "h", "o", "n", "e", " ", "C", "h", "a", "r", "g", "e", "r">>
            -> 20000
      [] OTHER -> 200000

_compute_replace_saving(device, assumptions) ==
    LET active_w == Watts(device, "active_watts_typical")
        active_hours == ActiveHours(device, assumptions)
        watts_saved == FMul(active_w, Frac(30, 100))
        standby_w == Watts(device, "standby_watts_typical")
        new_standby == FMax(Frac(3, 10), FMul(standby_w, Frac(1, 2)))
        standby_saved == FSub(standby_w, new_standby)
        standby_hours == 24 - active_hours
        kwh_saved == PerYearKwh(FAdd(FMul(watts_saved, Whole(active_hours)),
                                     FMul(standby_saved, Whole(standby_hours))))
        dollars_saved == FMul(kwh_saved, Rate(assumptions))
        cost == replacement_cost(get(device, "category", <<>>))
        payback == Payback(cost, dollars_saved)
    IN  IF FLess(Whole(120), payback) THEN Returned(NoProposal)
        ELSE Returned(Proposal(device, assumptions, "replace",
                 [ActionParameters EXCEPT
                     !.replacement_model = "ENERGY STAR equivalent",
                     !.replacement_cost_usd = cost,
                     !.cost_usd = cost],
                 kwh_saved, cost, RoundTo1(payback), 500,
                 <<"Replacing with ENERGY STAR model saves active power.">>,
                 <<"requires_purchase">>))

\* ---------------------------------------------------- propose_actions
\* is_protected: some entry of do_not_turn_off (already lowered) occurs in the
\* lowered label or category.
IsProtected(device, do_not_turn_off) ==
    LET device_label_lower == lower(get(device, "label", <<>>))
        device_category_lower == lower(get(device, "category", <<>>))
    IN  \E i \in 1 .. Len(do_not_turn_off) :
            \/ contains(device_label_lower, do_not_turn_off[i])
            \/ contains(device_category_lower, do_not_turn_off[i])

\* What one block of the device loop contributes: the candidates it appends,
\* the calculators it invoked, and whether a calculator raised.
Block(raised, added, calls) == [raised |-> raised, added |-> added, calls |-> calls]

\* The smart plug block (lines 284-294).
SmartPlugBlock(device, assumptions, is_critical, is_protected) ==
    LET r == _compute_smart_plug_saving(device, assumptions)
        proposal == r.value
        calls == <<"smart_plug">>
    IN  IF proposal # NoProposal /\ ~(is_critical /\ is_protected)
        THEN Block(FALSE, <<proposal>>, calls)
        ELSE IF proposal # NoProposal /\ is_critical
        THEN Block(FALSE,
                   << [proposal EXCEPT
                         !.action_type = "suggest_manual",
                         !.feasibility_score = 400,
                         !.safety_flags = Append(@, "critical_device"),
                         !.rationale = <<"[Critical] ">> \o @
                                          \o <<" -- requires manual approval.">>] >>,
                   calls)
        ELSE Block(FALSE, <<>>, calls)

\* Fault: the schedule block without the protection check.
ScheduleGateOpen(is_critical, is_protected) == TRUE

\* if not is_protected (line 297)
ScheduleGate(is_critical, is_protected) == ~is_protected

\* The schedule block (lines 296-303).
ScheduleBlock(device, assumptions, quiet_hours, is_critical, is_protected) ==
    IF ~ScheduleGate(is_critical, is_protected) THEN Block(FALSE, <<>>, <<>>)
    ELSE LET r == _compute_schedule_saving(device, assumptions, quiet_hours)
             proposal == r.value
             calls == <<"schedule">>
         IN  IF r.raised THEN Block(TRUE, <<>>, calls)
             ELSE IF proposal = NoProposal THEN Block(FALSE, <<>>, calls)
             ELSE IF is_critical
             THEN Block(FALSE,
                        << [proposal EXCEPT
                              !.action_type = "suggest_manual",
                              !.safety_flags = Append(@, "critical_device")] >>,
                        calls)
             ELSE Block(FALSE, <<proposal>>, calls)

\* Fault: an eco mode block that leaves critical devices out.
EcoGateCritical(is_critical, is_protected) == ~is_critical

\* The eco mode block has no condition on the device (lines 305-308).
EcoGate(is_critical, is_protected) == TRUE

EcoBlock(device, assumptions, is_critical, is_protected) ==
    IF ~EcoGate(is_critical, is_protected) THEN Block(FALSE, <<>>, <<>>)
    ELSE LET proposal == _compute_eco_mode_saving(device, assumptions).value
         IN  Block(FALSE, IF proposal # NoProposal THEN <<proposal>> ELSE <<>>, <<"set_mode">>)

\* Fault: a turn_off block computed for every device.
TurnOffGateOpen(is_critical, is_protected) == TRUE

\* Fault: a turn_off block that checks criticality only.
TurnOffGateCriticalOnly(is_critical, is_protected) == ~is_critical

\* if not is_critical and not is_protected (line 311)
TurnOffGate(is_critical, is_protected) == ~is_critical /\ ~is_protected

\* The turn off block (lines 310-314).
TurnOffBlock(device, assumptions, is_critical, is_protected) ==
    IF ~TurnOffGate(is_critical, is_protected) THEN Block(FALSE, <<>>, <<>>)
    ELSE LET proposal == _compute_turn_off_saving(device, assumptions).value
         IN  Block(FALSE, IF proposal # NoProposal THEN <<proposal>> ELSE <<>>, <<"turn_off">>)

\* The replace block (lines 316-319).
ReplaceBlock(device, assumptions, is_critical, is_protected) ==
    LET proposal == _compute_replace_saving(device, assumptions).value
    IN  Block(FALSE, IF proposal # NoProposal THEN <<proposal>> ELSE <<>>, <<"replace">>)

\* The loop state after the five blocks b1 .. b5 of one device; calls records
\* <<device id, calculator>> for every calculator invoked.  The schedule block
\* is the only one that can raise.
AfterBlocks(st, device_id, b1, b2, b3, b4, b5) ==
    LET tag(calls) == [i \in 1 .. Len(calls) |-> <<device_id, calls[i]>>]
    IN  IF b2.raised
        THEN [candidates |-> st.candidates \o b1.added,
              calls |-> st.calls \o tag(b1.calls \o b2.calls),
              raised |-> TRUE]
        ELSE [candidates |-> st.candidates \o b1.added \o b2.added \o b3.added
                                 \o b4.added \o b5.added,
              calls |-> st.calls \o tag(b1.calls \o b2.calls \o b3.calls
                                        \o b4.calls \o b5.calls),
              raised |-> FALSE]

\* The five blocks for a device with the given flags.
Blocks(st, device, assumptions, quiet_hours, is_critical, is_protected) ==
    AfterBlocks(st, get(device, "id", <<>>),
                SmartPlugBlock(device, assumptions, is_critical, is_protected),
                ScheduleBlock(device, assumptions, quiet_hours, is_critical, is_protected),
                EcoBlock(device, assumptions, is_critical, is_protected),
                TurnOffBlock(device, assumptions, is_critical, is_protected),
                ReplaceBlock(device, assumptions, is_critical, is_protected))

\* One pass of the device loop from st = [candidates, calls, raised].
DeviceStep(st, device, assumptions, do_not_turn_off, quiet_hours) ==
    Blocks(st, device, assumptions, quiet_hours,
           get(device, "is_critical", FALSE), IsProtected(device, do_not_turn_off))

\* for device in devices (lines 273-319); an exception ends the loop.
RECURSIVE DeviceLoop(_, _, _, _, _)
DeviceLoop(st, devices, assumptions, do_not_turn_off, quiet_hours) ==
    IF devices = <<>> \/ st.raised THEN st
    ELSE TheOne({ DeviceLoop(next, Tail(devices), assumptions, do_not_turn_off,
                             quiet_hours) :
                    next \in {DeviceStep(st, Head(devices), assumptions,
                                         do_not_turn_off, quiet_hours)} })

\* The sort key: estimated_annual_dollars_saved / max(0.1, estimated_cost_usd)
SortKey(c) ==
    FDiv(Frac(c.estimated_annual_dollars_saved, 1000),
         FMax(Frac(1, 10), Frac(c.estimated_cost_usd, 1000)))

\* candidates.sort(key=..., reverse=True): stable, equal keys keep their order.
RECURSIVE RankInsert(_, _)
RankInsert(sorted, c) ==
    IF sorted = <<>> THEN <<c>>
    ELSE IF ~FLess(SortKey(Head(sorted)), SortKey(c))
         THEN <<Head(sorted)>> \o RankInsert(Tail(sorted), c)
         ELSE <<c>> \o sorted

RECURSIVE rank_desc(_)
rank_desc(candidates) ==
    IF candidates = <<>> THEN <<>>
    ELSE TheOne({ RankInsert(sorted, candidates[Len(candidates)]) :
                    sorted \in {rank_desc(SubSeq(candidates, 1, Len(candidates) - 1))} })

\* Fault: a selector that never looks at the budget.
FitsAlways(cost, remaining_budget) == TRUE

\* c.estimated_cost_usd <= remaining_budget (line 333)
Fits(cost, remaining_budget) == cost <= remaining_budget

\* Fault: a scan that stops at the first candidate over the remaining budget.
RECURSIVE SelectLoopStopAtUnfit(_, _, _)
SelectLoopStopAtUnfit(st, candidates, max_actions) ==
    IF candidates = <<>> \/ Len(st.selected) >= max_actions THEN st
    ELSE IF Fits(Head(candidates).estimated_cost_usd, st.remaining_budget)
    THEN TheOne({ SelectLoopStopAtUnfit(next, Tail(candidates), max_actions) :
                    next \in {[selected |-> Append(st.selected, Head(candidates)),
                               remaining_budget |->
                                  st.remaining_budget
                                      - Head(candidates).estimated_cost_usd]} })
    ELSE st

\* for c in candidates (lines 330-335), from st = [selected, remaining_budget]
RECURSIVE SelectLoop(_, _, _)
SelectLoop(st, candidates, max_actions) ==
    IF candidates = <<>> \/ Len(st.selected) >= max_actions THEN st
    ELSE IF Fits(Head(candidates).estimated_cost_usd, st.remaining_budget)
    THEN TheOne({ SelectLoop(next, Tail(candidates), max_actions) :
                    next \in {[selected |-> Append(st.selected, Head(candidates)),
                               remaining_budget |->
                                  st.remaining_budget
                                      - Head(candidates).estimated_cost_usd]} })
    ELSE SelectLoop(st, Tail(candidates), max_actions)

DefaultQuietHours == << <<"2", "3", ":", "0", "0", "-", "0", "7", ":", "0", "0">> >>

DefaultBudget == 999999000

\* The sort, the selection and the return of propose_actions (lines 321-337)
\* for the outcome gen of the device loop.
RankAndSelect(gen, budget, max_actions, top_n) ==
    LET ranked == rank_desc(gen.candidates)
        sel == SelectLoop([selected |-> <<>>, remaining_budget |-> budget],
                          ranked, max_actions)
    IN  IF gen.raised
        THEN [raised |-> TRUE, value |-> None,
              locals |-> [candidates |-> gen.candidates, ranked |-> <<>>,
                          calls |-> gen.calls]]
        ELSE [raised |-> FALSE, value |-> limit(sel.selected, top_n),
              locals |-> [candidates |-> gen.candidates, ranked |-> ranked,
                          calls |-> gen.calls]]

\* propose_actions: the returned list (or the exception), with the locals
\* candidates (before the sort), ranked (after it) and calls.  The argument
\* constraints is <<>> for None and <<dict>> for a dict.
propose_actions(devices, assumptions, constraints_arg, top_n) ==
    LET constraints == IF constraints_arg = <<>> THEN <<>> ELSE constraints_arg[1]
        listed == get(constraints, "do_not_turn_off", <<>>)
    IN  TheOne({ RankAndSelect(gen, get(constraints, "budget_usd", DefaultBudget),
                               get(constraints, "max_actions", top_n), top_n) :
                   gen \in { DeviceLoop(
                               [candidates |-> <<>>, calls |-> <<>>, raised |-> FALSE],
                               devices, assumptions,
                               [i \in 1 .. Len(listed) |-> lower(listed[i])],
                               get(constraints, "quiet_hours", DefaultQuietHours)) } })

\* ------------------------------------------- calls of the optimizer (SpecOpt)
MaxDevices == 2     \* longest device list handed to propose_actions

\* Devices of the inventory: a television (neither critical nor, by default,
\* protected), a critical refrigerator that runs 20 h a day, and a fan of an
\* unlisted category whose replacement pays back quickly.
DeviceInputs ==
    { [id |-> "d1", label |-> <<"T", "V">>, category |-> <<"T", "V">>,
       is_critical |-> FALSE,
       power |-> [standby_watts_typical |-> 20, active_watts_typical |-> 1000]],
      [id |-> "d2", label |-> <<"F", "r", "i", "d", "g", "e">>,
       category |-> <<"R", "e", "f", "r", "i", "g", "e", "r", "a", "t", "o", "r">>,
       is_critical |-> TRUE,
       power |-> [standby_watts_typical |-> 20, active_watts_typical |-> 1500],
       active_hours_per_day |-> 20],
      [id |-> "d3", label |-> <<"F", "a", "n">>, category |-> <<"F", "a", "n">>,
       is_critical |-> FALSE,
       power |-> [standby_watts_typical |-> 20, active_watts_typical |-> 2000],
       active_hours_per_day |-> 20] }

AssumptionsInputs ==
    { [rate_per_kwh |-> 30, kg_co2_per_kwh |-> 42, profile |-> "typical",
       standby_reduction |-> 8] }

BudgetInputs == {0, 100000, 1000000}

MaxActionsInputs == {1, 3}

TopNInputs == {1, 2, 5}

DoNotTurnOffInputs == { << <<"F", "r", "i", "d", "g", "e">> >>, << <<"t", "v">> >> }

\* A well-formed range of 6 hours and an entry without the '-' separator.
QuietHoursInputs ==
    { << <<"0", "0", ":", "0", "0", "-", "0", "6", ":", "0", "0">> >>,
      << <<"2", "3", "0", "0">> >> }

\* The constraints dicts: every key is optional.
ConstraintsInputs ==
    LET Opt(key, S) == {<<>>} \cup {<<key, v>> : v \in S}
        Dict(b, m, d, q) ==
            LET items == {x \in {b, m, d, q} : x # <<>>}
            IN  [k \in {x[1] : x \in items} |->
                    (CHOOSE x \in items : x[1] = k)[2]]
    IN  { Dict(b, m, d, q) :
            b \in Opt("budget_usd", BudgetInputs),
            m \in Opt("max_actions", MaxActionsInputs),
            d \in Opt("do_not_turn_off", DoNotTurnOffInputs),
            q \in Opt("quiet_hours", QuietHoursInputs) }

\* A request slot about to call the optimizer with the arguments args.
CallTask(op, args) == [pc |-> "call", op |-> op, args |-> args]

\* The arguments of one call: devices, assumptions, constraints (<<>> for None,
\* <<dict>> for a dict) and top_n.
OptimizerArgs ==
    { <<devices, assumptions, constraints, top_n>> :
        devices \in SeqsUpTo(DeviceInputs, MaxDevices),
        assumptions \in AssumptionsInputs,
        constraints \in {<<>>} \cup {<<c>> : c \in ConstraintsInputs},
        top_n \in TopNInputs }

\* One request is about to call propose_actions; the action store is not
\* involved.
InitOpt ==
    /\ dbAvailable = FALSE
    /\ store = <<>>
    /\ mem_counter = 0
    /\ now = 0
    /\ invoked = [i \in IdInputs |-> 0]
    /\ ret = NoCall
    /\ \E args \in OptimizerArgs :
          tasks = [t \in Tasks |->
                      IF t = "t1" THEN CallTask("propose_actions", args) ELSE IdleTask]

\* propose_actions(devices, assumptions, constraints, top_n)
ProposeActions(t) ==
    /\ tasks[t].pc = "call"
    /\ tasks[t].op = "propose_actions"
    /\ LET args == tasks[t].args
           r == propose_actions(args[1], args[2], args[3], args[4])
       IN  ret' = [op |-> "propose_actions", args |-> args,
                   raised |-> r.raised, result |-> r.value, locals |-> r.locals]
    /\ tasks' = [tasks EXCEPT ![t] = IdleTask]
    /\ UNCHANGED <<dbAvailable, store, mem_counter, now, invoked>>

NextOpt == \E t \in Tasks : ProposeActions(t)

SpecOpt == InitOpt /\ [][NextOpt]_vars

\* ------------------------------------------------ propose_actions_with_llm
\* JSON as json.loads returns it: a number is [num |-> thousandths], a str is
\* [str |-> s] (s a sequence of characters where a number is expected, a string
\* elsewhere), null is [null |-> TRUE], a list is [list |-> <<values>>] and a
\* dict is [dict |-> record of values].  The content of a response is a sequence
\* of tokens: [tok |-> "fence"] for ```, [tok |-> "json"] for the language tag
\* and [tok |-> "text", json |-> <<value>>] for text that parses to the value
\* (json |-> <<>> for text that json.loads rejects).
Fence == [tok |-> "fence"]

JsonTag == [tok |-> "json"]

Text(parsed) == [tok |-> "text", json |-> parsed]

IsDict(v) == "dict" \in DOMAIN v

IsList(v) == "list" \in DOMAIN v

\* content.split("```")[1]: the tokens between the first and the second fence.
AfterFirstFence(content) ==
    LET rest == Tail(content)
        fences == {i \in 1 .. Len(rest) : rest[i] = Fence}
        stop == IF fences = {} THEN Len(rest) + 1
                ELSE CHOOSE i \in fences : \A j \in fences : i <= j
    IN  SubSeq(rest, 1, stop - 1)

\* Lines 409-412: the code fence and the json tag are stripped.
StripFence(content) ==
    IF content # <<>> /\ Head(content) = Fence
    THEN LET inner == AfterFirstFence(content)
         IN  IF inner # <<>> /\ Head(inner) = JsonTag THEN Tail(inner) ELSE inner
    ELSE content

\* json.loads: the value, or JSONDecodeError unless the content is one text
\* that parses.
json_loads(content) ==
    IF Len(content) = 1 /\ content[1].tok = "text" /\ content[1].json # <<>>
    THEN [raised |-> FALSE, value |-> content[1].json[1]]
    ELSE [raised |-> TRUE, value |-> [null |-> TRUE]]

\* Lines 415-417: the list of raw items.
ProposalsRaw(parsed) ==
    LET inner == IF IsDict(parsed) THEN get(parsed.dict, "proposals", parsed) ELSE parsed
    IN  IF IsList(inner) THEN inner.list ELSE <<inner>>

\* pydantic's float: a number, or a str of digits; anything else is an error.
ToFloat(v) ==
    IF "num" \in DOMAIN v THEN [ok |-> TRUE, value |-> v.num]
    ELSE IF "str" \in DOMAIN v /\ ~int(v.str).raised
    THEN [ok |-> TRUE, value |-> 1000 * int(v.str).value]
    ELSE [ok |-> FALSE, value |-> 0]

\* pydantic's str
IsStr(v) == "str" \in DOMAIN v

\* Field(ge=0, le=1)
FeasibilityInRange(x) == 0 <= x /\ x <= 1000

\* The body of the try of lines 421-446 for the raw item p: <<proposal>>, or
\* <<>> when p.get, p[...] or the validation of ActionProposal raises.
ValidateItem(p) ==
    IF ~IsDict(p) THEN <<>>
    ELSE LET f == p.dict
             params == get(f, "parameters", [dict |-> <<>>])
             num(d, key, default) == ToFloat(get(d, key, [num |-> default]))
             kwh == num(f, "estimated_annual_kwh_saved", 0)
             dollars == num(f, "estimated_annual_dollars_saved", 0)
             co2 == num(f, "estimated_co2_kg_saved", 0)
             cost == num(f, "estimated_cost_usd", 0)
             payback == num(f, "payback_months", 0)
             feasibility == num(f, "feasibility_score", 500)
         IN  IF \/ ~IsDict(params)
                \/ "deviceId" \notin DOMAIN f
                \/ "action_type" \notin DOMAIN f
                \/ ~IsStr(f.deviceId)
                \/ ~IsStr(get(f, "label", [str |-> "Unknown"]))
                \/ ~IsStr(f.action_type)
                \/ ~num(params.dict, "cost_usd", 0).ok
                \/ ~kwh.ok \/ ~dollars.ok \/ ~co2.ok \/ ~cost.ok \/ ~payback.ok
                \/ ~feasibility.ok
             THEN <<>>
             ELSE IF \/ f.action_type.str \notin KnownActionTypes
                     \/ ~FeasibilityInRange(feasibility.value)
             THEN <<>>
             ELSE << [deviceId |-> f.deviceId.str,
                      label |-> get(f, "label", [str |-> "Unknown"]).str,
                      action_type |-> f.action_type.str,
                      parameters |->
                         [ActionParameters EXCEPT
                             !.cost_usd = num(params.dict, "cost_usd", 0).value],
                      estimated_annual_kwh_saved |-> kwh.value,
                      estimated_annual_dollars_saved |-> dollars.value,
                      estimated_co2_kg_saved |-> co2.value,
                      estimated_cost_usd |-> cost.value,
                      payback_months |-> payback.value,
                      feasibility_score |-> feasibility.value,
                      rationale |-> <<>>,
                      safety_flags |-> <<>>] >>

\* proposals_raw[:top_n] (line 420)
FirstRaw(proposals_raw, top_n) == limit(proposals_raw, top_n)

\* for p in proposals_raw[:top_n] (lines 419-449)
RECURSIVE ValidateLoop(_)
ValidateLoop(items) ==
    IF items = <<>> THEN <<>> ELSE ValidateItem(Head(items)) \o ValidateLoop(Tail(items))

\* Fault: the list of validated proposals is returned even when it is empty.
ReturnsProposalsAlways(proposals) == TRUE

\* if proposals (line 451)
ReturnsProposals(proposals) == proposals # <<>>

\* The validated proposals of a response that arrived: <<>> when the call
\* raised or the content does not parse.
ProposalsOfResponse(response, top_n) ==
    LET parsed == json_loads(StripFence(response.content))
    IN  IF response.raised \/ parsed.raised THEN <<>>
        ELSE ValidateLoop(FirstRaw(ProposalsRaw(parsed.value), top_n))

\* What propose_actions_with_llm returns once proposals is known (lines
\* 451-458); fallback is the outcome of propose_actions.
LLMReturn(proposals, arrived, fallback) ==
    IF arrived /\ ReturnsProposals(proposals)
    THEN [raised |-> FALSE, value |-> proposals]
    ELSE [raised |-> fallback.raised, value |-> fallback.value]

\* ------------------------------------ calls of the LLM optimizer (SpecLLM)
MaxItems == 2       \* most items in one response of the LLM

MaxLLMDevices == 1  \* longest device list handed to propose_actions_with_llm

Chars3(a, b, c) == <<a, b, c>>

\* Raw items of a response: two that pass the validation (the second has a
\* cost written as a str of digits and cites a critical device) and six that
\* do not: no deviceId, no action_type, an unknown action_type, a cost that is
\* not a number, a feasibility_score above 1, and an item that is not a dict.
ValidItemInputs ==
    { [dict |-> [deviceId |-> [str |-> "d1"], label |-> [str |-> "TV"],
                 action_type |-> [str |-> "turn_off"],
                 estimated_annual_dollars_saved |-> [num |-> 3504],
                 feasibility_score |-> [num |-> 700]]],
      [dict |-> [deviceId |-> [str |-> "d2"],
                 action_type |-> [str |-> "replace"],
                 parameters |-> [dict |-> [cost_usd |-> [num |-> 800000]]],
                 estimated_cost_usd |-> [str |-> Chars3("8", "0", "0")],
                 feasibility_score |-> [num |-> 1000]]] }

InvalidItemInputs ==
    { [dict |-> [action_type |-> [str |-> "turn_off"]]],
      [dict |-> [deviceId |-> [str |-> "d1"]]],
      [dict |-> [deviceId |-> [str |-> "d1"], action_type |-> [str |-> "dim_lights"]]],
      [dict |-> [deviceId |-> [str |-> "d1"], action_type |-> [str |-> "schedule"],
                 estimated_cost_usd |-> [str |-> Chars3("a", "b", "c")]]],
      [dict |-> [deviceId |-> [str |-> "d1"], action_type |-> [str |-> "set_mode"],
                 feasibility_score |-> [num |-> 1500]]],
      [str |-> "none"] }

ItemInputs == ValidItemInputs \cup InvalidItemInputs

\* What the text of a response parses to: nothing, a list of items, a dict
\* with the list under "proposals", or one item alone.
ParsedInputs ==
    {<<>>}
    \cup { <<[list |-> items]>> : items \in SeqsUpTo(ItemInputs, MaxItems) }
    \cup { <<[dict |-> [proposals |-> [list |-> items]]]>> :
              items \in SeqsUpTo(ItemInputs, MaxItems) }
    \cup { <<item>> : item \in ItemInputs }

\* The outcomes of llm.ainvoke: an exception, or a response whose content is
\* the text, bare or inside a ```json fence.
ResponseInputs ==
    {[raised |-> TRUE, content |-> <<>>]}
    \cup { [raised |-> FALSE, content |-> <<Text(parsed)>>] : parsed \in ParsedInputs }
    \cup { [raised |-> FALSE, content |-> <<Fence, JsonTag, Text(parsed), Fence>>] :
              parsed \in ParsedInputs }

LLMConstraintsInputs ==
    { <<>>,
      <<[budget_usd |-> 100000, max_actions |-> 1]>>,
      <<[do_not_turn_off |-> << <<"t", "v">> >>]>> }

LLMArgs ==
    { <<devices, assumptions, constraints, top_n>> :
        devices \in SeqsUpTo(DeviceInputs, MaxLLMDevices),
        assumptions \in AssumptionsInputs,
        constraints \in LLMConstraintsInputs,
        top_n \in {1, 2} }

\* One request is about to call propose_actions_with_llm; GOOGLE_API_KEY is
\* set in the environment or not.
InitLLM ==
    /\ dbAvailable = FALSE
    /\ store = <<>>
    /\ mem_counter = 0
    /\ now = 0
    /\ invoked = [i \in IdInputs |-> 0]
    /\ ret = NoCall
    /\ \E args \in LLMArgs, api_key \in BOOLEAN :
          tasks = [t \in Tasks |->
                      IF t = "t1"
                      THEN [pc |-> "call", op |-> "propose_actions_with_llm",
                            args |-> args, api_key |-> api_key]
                      ELSE IdleTask]

\* The value returned to the caller, with the locals it was computed from.
LLMRet(args, out, api_key, response, proposals) ==
    [op |-> "propose_actions_with_llm", args |-> args,
     raised |-> out.raised, result |-> out.value,
     locals |-> [api_key |-> api_key, response |-> response, proposals |-> proposals]]

\* propose_actions_with_llm up to the await: without an API key the
\* deterministic optimizer answers (lines 358-360); with one the prompt is
\* built and llm.ainvoke is awaited (lines 362-406).
LLMCall(t) ==
    /\ tasks[t].pc = "call"
    /\ tasks[t].op = "propose_actions_with_llm"
    /\ LET args == tasks[t].args
       IN  IF ~tasks[t].api_key
           THEN /\ ret' = TheOne({ LLMRet(args, LLMReturn(<<>>, FALSE, fallback),
                                           FALSE, <<>>, <<>>) :
                                     fallback \in {propose_actions(args[1], args[2],
                                                                   args[3], args[4])} })
                /\ tasks' = [tasks EXCEPT ![t] = IdleTask]
           ELSE /\ tasks' = [tasks EXCEPT ![t].pc = "ainvoke"]
                /\ UNCHANGED ret
    /\ UNCHANGED <<dbAvailable, store, mem_counter, now, invoked>>

\* The service answers the awaited call: with a response or with an exception.
LLMResponds(t) ==
    /\ tasks[t].pc = "ainvoke"
    /\ \E response \in ResponseInputs :
          tasks' = [tasks EXCEPT ![t] =
                       [pc |-> "resumed", op |-> tasks[t].op, args |-> tasks[t].args,
                        api_key |-> tasks[t].api_key, response |-> response]]
    /\ UNCHANGED <<dbAvailable, store, mem_counter, now, invoked, ret>>

\* propose_actions_with_llm after the await (lines 408-458).
LLMResume(t) ==
    /\ tasks[t].pc = "resumed"
    /\ LET args == tasks[t].args
           response == tasks[t].response
       IN  ret' = TheOne({ LLMRet(args,
                              LLMReturn(proposals, TRUE,
                                 propose_actions(args[1], args[2], args[3], args[4])),
                              TRUE, <<response>>, proposals) :
                            proposals \in {ProposalsOfResponse(response, args[4])} })
    /\ tasks' = [tasks EXCEPT ![t] = IdleTask]
    /\ UNCHANGED <<dbAvailable, store, mem_counter, now, invoked>>

NextLLM ==
    \E t \in Tasks :
        \/ LLMCall(t)
        \/ LLMResponds(t)
        \/ LLMResume(t)

SpecLLM == InitLLM /\ [][NextLLM]_vars

\* The coroutine of slot t runs: it leaves the call or the point where it was
\* resumed, for the await or for its return.  Under SpecLLM these are the
\* steps LLMCall(t) and LLMResume(t), which are enabled in the same states.
EventLoopRuns(t) ==
    /\ tasks[t].pc \in {"call", "resumed"}
    /\ tasks' \in {[tasks EXCEPT ![t] = IdleTask], [tasks EXCEPT ![t].pc = "ainvoke"]}

\* The event loop runs a coroutine that can run; nothing makes the service
\* answer.
SpecLLMFair == SpecLLM /\ \A t \in Tasks : WF_tasks(EventLoopRuns(t))

\* ------------------------------------- calls of the calculators (SpecCalc)
\* standby_watts_typical in tenths of a watt, on both sides of 0.3, 0.5 and 1.0
StandbyInputs == {0, 2, 4, 5, 9, 10, 20}

\* Devices that differ in standby and active draw, in category (a replacement
\* for 400 or for 8), in criticality and in the hours they run a day.
CalcDeviceInputs ==
    LET Device(standby, active, category, is_critical) ==
            [id |-> "d1", label |-> <<"T", "V">>, category |-> category,
             is_critical |-> is_critical,
             power |-> [standby_watts_typical |-> standby,
                        active_watts_typical |-> active]]
        Devices == { Device(standby, active, category, is_critical) :
                        standby \in StandbyInputs, active \in {0, 1000},
                        category \in { <<"T", "V">>,
                                       <<"L", "i", "g", "h", "t", " ", "B", "u", "l", "b">> },
                        is_critical \in BOOLEAN }
    IN  Devices \cup { [active_hours_per_day |-> 20] @@ d : d \in Devices }

CalculatorNames ==
    {"_compute_smart_plug_saving", "_compute_turn_off_saving", "_compute_replace_saving"}

\* The calls of a calculator on one device, and the calls of propose_actions
\* on the list of that device alone, unprotected or matched by do_not_turn_off.
CalcCalls ==
    { CallTask(op, <<device, assumptions>>) :
        op \in CalculatorNames, device \in CalcDeviceInputs,
        assumptions \in AssumptionsInputs }
    \cup { CallTask("propose_actions", <<<<device>>, assumptions, constraints, 5>>) :
            device \in CalcDeviceInputs, assumptions \in AssumptionsInputs,
            constraints \in {<<>>, <<[do_not_turn_off |-> << <<"t", "v">> >>]>>} }

InitCalc ==
    /\ dbAvailable = FALSE
    /\ store = <<>>
    /\ mem_counter = 0
    /\ now = 0
    /\ invoked = [i \in IdInputs |-> 0]
    /\ ret = NoCall
    /\ \E call \in CalcCalls :
          tasks = [t \in Tasks |-> IF t = "t1" THEN call ELSE IdleTask]

\* The call of the calculator op in slot t returns r.
CalculatorReturns(t, op, r) ==
    /\ tasks[t].pc = "call"
    /\ tasks[t].op = op
    /\ ret' = [op |-> op, args |-> tasks[t].args, raised |-> r.raised, result |-> r.value]
    /\ tasks' = [tasks EXCEPT ![t] = IdleTask]
    /\ UNCHANGED <<dbAvailable, store, mem_counter, now, invoked>>

SmartPlugSaving(t) ==
    /\ tasks[t].pc = "call"
    /\ tasks[t].op = "_compute_smart_plug_saving"
    /\ CalculatorReturns(t, "_compute_smart_plug_saving",
                         _compute_smart_plug_saving(tasks[t].args[1], tasks[t].args[2]))

TurnOffSaving(t) ==
    /\ tasks[t].pc = "call"
    /\ tasks[t].op = "_compute_turn_off_saving"
    /\ CalculatorReturns(t, "_compute_turn_off_saving",
                         _compute_turn_off_saving(tasks[t].args[1], tasks[t].args[2]))

ReplaceSaving(t) ==
    /\ tasks[t].pc = "call"
    /\ tasks[t].op = "_compute_replace_saving"
    /\ CalculatorReturns(t, "_compute_replace_saving",
                         _compute_replace_saving(tasks[t].args[1], tasks[t].args[2]))

NextCalc ==
    \E t \in Tasks :
        \/ SmartPlugSaving(t)
        \/ TurnOffSaving(t)
        \/ ReplaceSaving(t)
        \/ ProposeActions(t)

SpecCalc == InitCalc /\ [][NextCalc]_vars

\* ------------------------------- server.py: agent_command_endpoint (SpecAgent)
\* constraints["max_actions"] = 5
AgentMaxActions == 5

\* The keywords of a turn-off intent (line 1175).
TurnOffKeywords ==
    { <<"t", "u", "r", "n", " ", "o", "f", "f">>, <<"s", "h", "u", "t", " ", "d", "o", "w", "n">>,
      <<"s", "w", "i", "t", "c", "h", " ", "o", "f", "f">>, <<"p", "o", "w", "e", "r", " ", "o", "f", "f">> }

\* request.constraints or {}, with the defaults of lines 1164-1169 merged in.
AgentConstraints(constraints_arg) ==
    LET given == IF constraints_arg = <<>> THEN <<>> ELSE constraints_arg[1]
        defaults == [quiet_hours |-> DefaultQuietHours,
                     max_actions |-> AgentMaxActions,
                     do_not_turn_off |-> << <<"r", "o", "u", "t", "e", "r">>, <<"f", "r", "i", "d", "g", "e">>,
                                            <<"r", "e", "f", "r", "i", "g", "e", "r", "a", "t", "o", "r">> >>]
    IN  [k \in DOMAIN given \cup DOMAIN defaults |->
            IF k \in DOMAIN given THEN given[k] ELSE defaults[k]]

\* The filter of lines 1196-1200 on one entry of proposals_data.
IsSafe(pd) ==
    /\ \A i \in 1 .. Len(pd.proposal.safety_flags) :
          pd.proposal.safety_flags[i] # "critical_device"
    /\ pd.proposal.action_type \in {"turn_off", "schedule", "set_mode", "suggest_manual"}

\* safe_ids: the ids of the entries of zip(proposals, proposal_ids) that pass
\* the filter.
SafeIds(proposals, proposal_ids) ==
    LET n == IF Len(proposals) < Len(proposal_ids) THEN Len(proposals)
             ELSE Len(proposal_ids)
        safe == SelectSeq([i \in 1 .. n |-> [proposal |-> proposals[i],
                                             id |-> proposal_ids[i]]], IsSafe)
    IN  [i \in 1 .. Len(safe) |-> safe[i].id]

\* Requests to a home that exists or not, with none or one of the devices, a
\* command that asks to turn things off or to optimize, and no constraints
\* or a do_not_turn_off list.
AgentArgs ==
    { [home_found |-> home_found, devices |-> devices, assumptions |-> assumptions,
       command |-> command, constraints |-> constraints] :
        home_found \in BOOLEAN,
        devices \in SeqsUpTo(DeviceInputs, MaxLLMDevices),
        assumptions \in AssumptionsInputs,
        command \in { <<"T", "u", "r", "n", " ", "o", "f", "f", " ", "T", "V">>,
                      <<"o", "p", "t", "i", "m", "i", "z", "e">> },
        constraints \in {<<>>, <<[do_not_turn_off |-> << <<"t", "v">> >>]>>} }

InitAgent ==
    /\ dbAvailable = FALSE
    /\ store = <<>>
    /\ mem_counter = 0
    /\ now = 0
    /\ invoked = [i \in 0 .. AgentMaxActions |-> 0]
    /\ ret = NoCall
    /\ \E args \in AgentArgs, api_key \in BOOLEAN :
          tasks = [t \in Tasks |->
                      IF t = "t1"
                      THEN [pc |-> "call", op |-> "agent_command_endpoint",
                            args |-> args, api_key |-> api_key]
                      ELSE IdleTask]

\* The arguments of the call of propose_actions_with_llm (lines 1181-1183).
AgentOptimizerArgs(args) ==
    <<args.devices, args.assumptions, <<AgentConstraints(args.constraints)>>,
      get(AgentConstraints(args.constraints), "max_actions", AgentMaxActions)>>

\* agent_command_endpoint once propose_actions_with_llm has answered with out
\* (lines 1185-1219): the proposals are stored, the safe ones are executed when
\* the command asked to turn things off, and the request is answered.
AgentFinish(t, out) ==
    LET args == tasks[t].args
        cmd_lower == lower(args.command)
        auto_execute == \E kw \in TurnOffKeywords : contains(cmd_lower, kw)
        proposals == IF out.raised THEN <<>> ELSE out.value
        stored == StoreLoop([docs |-> store, counter |-> mem_counter, now |-> now,
                             ids |-> <<>>], "h1", proposals)
        safe_ids == IF auto_execute THEN SafeIds(proposals, stored.ids) ELSE <<>>
        done == ExecLoop([docs |-> stored.docs, now |-> stored.now, invoked |-> invoked,
                          results |-> <<>>, raised |-> FALSE], safe_ids)
    IN  /\ store' = done.docs
        /\ mem_counter' = stored.counter
        /\ now' = done.now
        /\ invoked' = done.invoked
        /\ ret' = [op |-> "agent_command_endpoint", args |-> args,
                   raised |-> out.raised \/ done.raised,
                   result |-> [proposal_ids |-> stored.ids, executed |-> done.results,
                               auto_executed |-> auto_execute],
                   locals |-> [proposals |-> proposals, safe_ids |-> safe_ids]]
        /\ tasks' = [tasks EXCEPT ![t] = IdleTask]
        /\ UNCHANGED dbAvailable

\* agent_command_endpoint up to the await of the LLM (lines 1148-1183 and
\* optimizer.py 344-405): 404 without the home, an empty answer without
\* devices, the deterministic proposals without an API key.
AgentCall(t) ==
    /\ tasks[t].pc = "call"
    /\ tasks[t].op = "agent_command_endpoint"
    /\ LET args == tasks[t].args
           oargs == AgentOptimizerArgs(args)
       IN  IF ~args.home_found \/ args.devices = <<>>
           THEN /\ ret' = [op |-> "agent_command_endpoint", args |-> args,
                           raised |-> ~args.home_found,
                           result |-> [proposal_ids |-> <<>>, executed |-> <<>>,
                                       auto_executed |-> FALSE],
                           locals |-> [proposals |-> <<>>, safe_ids |-> <<>>]]
                /\ tasks' = [tasks EXCEPT ![t] = IdleTask]
                /\ UNCHANGED <<dbAvailable, store, mem_counter, now, invoked>>
           ELSE IF ~tasks[t].api_key
           THEN AgentFinish(t, propose_actions(oargs[1], oargs[2], oargs[3], oargs[4]))
           ELSE /\ tasks' = [tasks EXCEPT ![t].pc = "ainvoke"]
                /\ UNCHANGED <<dbAvailable, store, mem_counter, now, invoked, ret>>

\* agent_command_endpoint after the LLM has answered.
AgentResume(t) ==
    /\ tasks[t].pc = "resumed"
    /\ tasks[t].op = "agent_command_endpoint"
    /\ LET oargs == AgentOptimizerArgs(tasks[t].args)
       IN  AgentFinish(t, LLMReturn(ProposalsOfResponse(tasks[t].response, oargs[4]), TRUE,
                                    propose_actions(oargs[1], oargs[2], oargs[3], oargs[4])))

NextAgent ==
    \E t \in Tasks :
        \/ AgentCall(t)
        \/ LLMResponds(t)
        \/ AgentResume(t)

SpecAgent == InitAgent /\ [][NextAgent]_vars

\* ------------------------------------------------------------------ claims
TerminalStatuses == {"failed", "reverted"}

NotExecutable == {"executed", "reverted", "failed"}

LegalTransitions ==
    { <<"proposed", "executed">>, <<"proposed", "failed">>,
      <<"scheduled", "executed">>, <<"scheduled", "failed">>,
      <<"executed", "reverted">> }

Ids(docs) == {docs[i]._id : i \in 1 .. Len(docs)}

\* Positions of id list ids, up to position n, whose result reports a successful
\* execution.
ExecutedUpTo(results, n) ==
    {k \in 1 .. n : results[k].status = "executed" /\ results[k].error = None}

\* C1: in every step of non-overlapping calls, every stored document stays in
\* place and its status either stays or moves along one of proposed->executed,
\* proposed->failed, scheduled->executed, scheduled->failed, executed->reverted
\* (so failed and reverted are never left).
C1_StatusTransitions ==
    [][\A i \in 1 .. Len(store) :
          /\ i <= Len(store')
          /\ store'[i]._id = store[i]._id
          /\ \/ store'[i].status = store[i].status
             \/ <<store[i].status, store'[i].status>> \in LegalTransitions]_vars

C1_Witness ==
    \E i, j \in 1 .. Len(store) :
        store[i].status = "reverted" /\ store[j].status = "failed"

\* C4: a step of execute_actions leaves every document whose status is executed,
\* reverted or failed as it is and does not run the executor for it; the result
\* appended for such an id carries the id, the current status and an error.  An
\* id that occurs twice in the list is executed by its first occurrence only:
\* the executor runs once, executedAt is the time of the first occurrence, and
\* the later occurrence reports the state conflict.
C4_NoReexecution ==
    [][ret'.op = "execute_actions" =>
        LET ids == ret'.args[1]
            results == ret'.result
        IN  /\ \A i \in 1 .. Len(store) :
                  store[i].status \in NotExecutable =>
                      /\ store'[i] = store[i]
                      /\ invoked'[store[i]._id] = invoked[store[i]._id]
                      /\ \A k \in 1 .. Len(results) :
                            ids[k] = store[i]._id =>
                                /\ results[k].id = ids[k]
                                /\ results[k].status = store[i].status
                                /\ results[k].error = "Cannot execute action in state"
                                /\ results[k].details = None
            /\ \A i \in 1 .. Len(store) :
                  \A k, l \in 1 .. Len(results) :
                      (k < l /\ ids[k] = store[i]._id /\ ids[l] = store[i]._id
                         /\ \A m \in 1 .. (k - 1) : ids[m] # ids[k]) =>
                          /\ invoked'[ids[k]] <= invoked[ids[k]] + 1
                          /\ results[l].status = store'[i].status
                          /\ results[l].error = "Cannot execute action in state"
                          /\ k \in ExecutedUpTo(results, k) =>
                                store'[i].executedAt
                                    = now + Cardinality(ExecutedUpTo(results, k))
       ]_vars

C4_Witness ==
    /\ ret.op = "execute_actions"
    /\ Len(ret.result) = 2
    /\ ret.args[1][1] = ret.args[1][2]
    /\ ret.result[1].status = "executed" /\ ret.result[1].error = None
    /\ ret.result[2].status = "executed" /\ ret.result[2].error # None
    /\ \E i \in 1 .. Len(store) :
          store[i]._id = ret.args[1][1] /\ store[i].executedAt # NoTime

\* C5: a step of revert_action on an id whose document is not in status executed,
\* or on a well-formed id of no document, returns success=false with an error
\* and changes no document; a call that raises changes no document either.
C5_RevertRefused ==
    [][ret'.op = "revert_action" =>
        LET id == ret'.args[1]
            docs == {i \in 1 .. Len(store) : store[i]._id = id}
        IN  /\ (ret'.raised \/ docs = {} \/ \E i \in docs : store[i].status # "executed")
                  => store' = store
            /\ (~ret'.raised /\ (docs = {} \/ \E i \in docs : store[i].status # "executed"))
                  => (ret'.result.success = FALSE /\ ret'.result.error # None)
       ]_vars

C5_Witness ==
    /\ ret.op = "revert_action"
    /\ ~ret.raised
    /\ ret.result.success = FALSE
    /\ \E i \in 1 .. Len(store) :
          store[i]._id = ret.args[1] /\ store[i].status = "proposed"

\* C6: execute_actions(ids) returns one result per element of ids, in input
\* order, whatever the ids are (missing, malformed, not executable, failing).
C6_OneResultPerId ==
    ret.op = "execute_actions" =>
        /\ ~ret.raised
        /\ Len(ret.result) = Len(ret.args[1])
        /\ \A k \in 1 .. Len(ret.result) : ret.result[k].id = ret.args[1][k]

\* C7: a step of execute_actions that reaches an id whose document is proposed
\* or scheduled sets it to failed, executedAt unset, and reports failed with the
\* error when the action_type is none of the six kinds; otherwise it sets it to
\* executed with executedAt set and reports executed.
C7_ExecutorOutcome ==
    [][ret'.op = "execute_actions" =>
        LET ids == ret'.args[1]
            results == ret'.result
        IN  \A i \in 1 .. Len(store) :
              \A k \in 1 .. Len(results) :
                (/\ store[i].status \in ExecutableStatuses
                 /\ ids[k] = store[i]._id
                 /\ \A m \in 1 .. (k - 1) : ids[m] # ids[k]) =>
                    IF store[i].action_type \in KnownActionTypes
                    THEN /\ store'[i].status = "executed"
                         /\ store'[i].executedAt > now
                         /\ results[k].id = ids[k]
                         /\ results[k].status = "executed"
                         /\ results[k].error = None
                         /\ results[k].details.success
                    ELSE /\ store'[i].status = "failed"
                         /\ store'[i].executedAt = NoTime
                         /\ results[k].id = ids[k]
                         /\ results[k].status = "failed"
                         /\ results[k].error = "Unknown action type"
       ]_vars

C7_Witness ==
    /\ ret.op = "execute_actions"
    /\ \E k, l \in 1 .. Len(ret.result) :
          /\ ret.result[k].status = "failed"
          /\ ret.result[l].status = "executed" /\ ret.result[l].error = None
    /\ \E i, j \in 1 .. Len(store) :
          /\ store[i].status = "failed" /\ store[i].executedAt = NoTime
          /\ store[j].status = "executed" /\ store[j].executedAt # NoTime

\* Sum of field f of the estimated_savings of the documents at positions S.
RECURSIVE SnapshotSum(_, _, _)
SnapshotSum(docs, S, f) ==
    IF S = {} THEN 0
    ELSE LET i == CHOOSE j \in S : TRUE
         IN docs[i].estimated_savings[f] + SnapshotSum(docs, S \ {i}, f)

ExecutedOf(docs, home_id) ==
    {i \in 1 .. Len(docs) : docs[i].homeId = home_id /\ docs[i].status = "executed"}

\* C8 as stated: compute_action_savings(homeId) returns the number of documents
\* of that home that are executed and, as totals, the sums of their snapshots.
C8_TotalsAreExactSums ==
    ret.op = "compute_action_savings" =>
        LET S == ExecutedOf(store, ret.args[1])
        IN  /\ ret.result.executed_actions = Cardinality(S)
            /\ ret.result.total_annual_kwh_saved = SnapshotSum(store, S, "kwh_per_year")
            /\ ret.result.total_annual_dollars_saved
                   = SnapshotSum(store, S, "dollars_per_year")
            /\ ret.result.total_annual_co2_kg_saved
                   = SnapshotSum(store, S, "co2_kg_per_year")

\* C8 amended: compute_action_savings(homeId) returns the number of documents of
\* that home that are executed and, as totals, the sums of their snapshots each
\* rounded to 2 decimals; documents that are not executed (reverted ones among
\* them) and documents of other homes contribute nothing.
C8_TotalsAreRoundedSums ==
    ret.op = "compute_action_savings" =>
        LET S == ExecutedOf(store, ret.args[1])
        IN  /\ ret.result.executed_actions = Cardinality(S)
            /\ ret.result.total_annual_kwh_saved
                   = Round2(SnapshotSum(store, S, "kwh_per_year"))
            /\ ret.result.total_annual_dollars_saved
                   = Round2(SnapshotSum(store, S, "dollars_per_year"))
            /\ ret.result.total_annual_co2_kg_saved
                   = Round2(SnapshotSum(store, S, "co2_kg_per_year"))

C8_Witness ==
    /\ ret.op = "compute_action_savings"
    /\ ret.result.executed_actions = 1
    /\ \E i, j \in 1 .. Len(store) :
          /\ store[i].homeId = ret.args[1] /\ store[i].status = "reverted"
          /\ store[j].homeId = ret.args[1] /\ store[j].status = "executed"
          /\ ret.result.total_annual_dollars_saved
                 = Round2(store[j].estimated_savings.dollars_per_year)

\* C9: no step changes the estimated_savings, homeId, deviceId, action_type or
\* parameters of a stored document.
C9_SnapshotImmutable ==
    [][\A i \in 1 .. Len(store) :
          /\ i <= Len(store')
          /\ store'[i].estimated_savings = store[i].estimated_savings
          /\ store'[i].homeId = store[i].homeId
          /\ store'[i].deviceId = store[i].deviceId
          /\ store'[i].action_type = store[i].action_type
          /\ store'[i].parameters = store[i].parameters]_vars

C9_Witness ==
    /\ ret.op \in {"list_actions", "compute_action_savings"}
    /\ \E i, j \in 1 .. Len(store) :
          /\ store[i].status = "reverted"
          /\ store[i].estimated_savings.dollars_per_year = 3504
          /\ store[j].status = "failed"
          /\ store[j].estimated_savings.cost_usd = 15000

\* C10: a step of store_proposals(homeId, proposals) keeps the stored documents
\* as they are and appends one document per proposal, in proposal order, with
\* status proposed, executedAt and revertedAt unset and the proposal's savings
\* as estimated_savings; it returns their ids in that order, pairwise distinct
\* and distinct from the ids stored before.
C10_StoreProposals ==
    [][ret'.op = "store_proposals" =>
        LET home_id == ret'.args[1]
            proposals == ret'.args[2]
            ids == ret'.result
            n == Len(store)
        IN  /\ Len(store') = n + Len(proposals)
            /\ SubSeq(store', 1, n) = store
            /\ Len(ids) = Len(proposals)
            /\ \A k \in 1 .. Len(ids) :
                  /\ ids[k] \notin Ids(store)
                  /\ \A l \in 1 .. Len(ids) : k # l => ids[k] # ids[l]
                  /\ store'[n + k]._id = ids[k]
                  /\ store'[n + k].homeId = home_id
                  /\ store'[n + k].deviceId = proposals[k].deviceId
                  /\ store'[n + k].action_type = proposals[k].action_type
                  /\ store'[n + k].status = "proposed"
                  /\ store'[n + k].executedAt = NoTime
                  /\ store'[n + k].revertedAt = NoTime
                  /\ store'[n + k].estimated_savings.dollars_per_year
                         = proposals[k].estimated_annual_dollars_saved
                  /\ store'[n + k].estimated_savings.kwh_per_year
                         = proposals[k].estimated_annual_kwh_saved
                  /\ store'[n + k].estimated_savings.co2_kg_per_year
                         = proposals[k].estimated_co2_kg_saved
                  /\ store'[n + k].estimated_savings.cost_usd
                         = proposals[k].estimated_cost_usd
                  /\ store'[n + k].estimated_savings.payback_months
                         = proposals[k].payback_months
       ]_vars

C10_Witness ==
    /\ ret.op = "store_proposals"
    /\ Len(ret.result) = 2
    /\ Len(store) = 2
    /\ store[1]._id = ret.result[1] /\ store[2]._id = ret.result[2]
    /\ store[1].estimated_savings # store[2].estimated_savings

\* C2: with overlapping execute_actions calls the executor runs at most once for
\* an action id and executedAt, once set, is not written again.
C2_ExecutedOnce ==
    [][\A i \in 1 .. Len(store) :
          /\ invoked'[store[i]._id] <= 1
          /\ store[i].executedAt # NoTime =>
                store'[i].executedAt = store[i].executedAt]_vars

\* C3: with overlapping execute_actions and revert_action calls a document whose
\* status is reverted or failed keeps that status in every step.
C3_TerminalStaysTerminal ==
    [][\A i \in 1 .. Len(store) :
          store[i].status \in TerminalStatuses =>
              store'[i].status = store[i].status]_vars

\* ------------------------------------------------- claims on the optimizer
\* The last finished call is a propose_actions call that returned a list.
ProposeReturned == ret.op = "propose_actions" /\ ~ret.raised

\* The constraints dict of the call (None stands for the empty dict).
ConstraintsOf(call) == IF call.args[3] = <<>> THEN <<>> ELSE call.args[3][1]

BudgetOf(call) == get(ConstraintsOf(call), "budget_usd", DefaultBudget)

MaxActionsOf(call) == get(ConstraintsOf(call), "max_actions", call.args[4])

Min(a, b) == IF a < b THEN a ELSE b

RECURSIVE SumCost(_)
SumCost(proposals) ==
    IF proposals = <<>> THEN 0
    ELSE Head(proposals).estimated_cost_usd + SumCost(Tail(proposals))

\* C11: the list returned by propose_actions costs at most budget_usd in total
\* and has at most min(max_actions, top_n) proposals.
C11_BudgetAndCount ==
    ProposeReturned =>
        /\ SumCost(ret.result) <= BudgetOf(ret)
        /\ Len(ret.result) <= Min(MaxActionsOf(ret), ret.args[4])

\* A paid proposal was selected, the count limit was reached and a ranked
\* candidate costing more than the whole budget was left out.
C11_Witness ==
    /\ ProposeReturned
    /\ "budget_usd" \in DOMAIN ConstraintsOf(ret)
    /\ Len(ret.result) = MaxActionsOf(ret)
    /\ \E k \in 1 .. Len(ret.result) : ret.result[k].estimated_cost_usd > 0
    /\ \E i \in 1 .. Len(ret.locals.ranked) :
          ret.locals.ranked[i].estimated_cost_usd > BudgetOf(ret)

\* dollars saved per dollar of cost, the cost floored at 0.1
Ratio(c) ==
    Frac(c.estimated_annual_dollars_saved,
         IF c.estimated_cost_usd < 100 THEN 100 ELSE c.estimated_cost_usd)

Occurrences(s, x) == Cardinality({i \in 1 .. Len(s) : s[i] = x})

IsPermutation(s, t) ==
    /\ Len(s) = Len(t)
    /\ \A i \in 1 .. Len(s) : Occurrences(s, s[i]) = Occurrences(t, s[i])

\* The reference scan: the positions of ranked selected when scanning from
\* position i with the positions chosen so far and the budget left.
RECURSIVE GreedyScan(_, _, _, _, _)
GreedyScan(ranked, i, chosen, remaining, max_actions) ==
    IF i > Len(ranked) THEN chosen
    ELSE IF Len(chosen) < max_actions /\ ranked[i].estimated_cost_usd <= remaining
    THEN GreedyScan(ranked, i + 1, Append(chosen, i),
                    remaining - ranked[i].estimated_cost_usd, max_actions)
    ELSE GreedyScan(ranked, i + 1, chosen, remaining, max_actions)

\* C12: propose_actions orders the candidates by non-increasing ratio and
\* returns the first top_n candidates the reference scan selects, a candidate
\* over the remaining budget being skipped without ending the scan.
C12_ReferenceGreedy ==
    ProposeReturned =>
        LET ranked == ret.locals.ranked
            chosen == GreedyScan(ranked, 1, <<>>, BudgetOf(ret), MaxActionsOf(ret))
            n == Min(Len(chosen), ret.args[4])
        IN  /\ IsPermutation(ranked, ret.locals.candidates)
            /\ \A i \in 1 .. (Len(ranked) - 1) :
                  ~FLess(Ratio(ranked[i]), Ratio(ranked[i + 1]))
            /\ ret.result = [k \in 1 .. n |-> ranked[chosen[k]]]

\* A higher-ranked candidate did not fit the budget and a lower-ranked, cheaper,
\* paid one was returned.
C12_Witness ==
    /\ ProposeReturned
    /\ \E i, j \in 1 .. Len(ret.locals.ranked) :
          /\ i < j
          /\ ret.locals.ranked[i].estimated_cost_usd > BudgetOf(ret)
          /\ ret.locals.ranked[j].estimated_cost_usd > 0
          /\ FLess(Ratio(ret.locals.ranked[j]), Ratio(ret.locals.ranked[i]))
          /\ \E k \in 1 .. Len(ret.result) : ret.result[k] = ret.locals.ranked[j]

\* The devices of the call, and the policy flags of a device under its
\* constraints.
DevicesOf(call) == {call.args[1][i] : i \in 1 .. Len(call.args[1])}

Critical(device) == device.is_critical

Protected(device, call) ==
    LET names == get(ConstraintsOf(call), "do_not_turn_off", <<>>)
    IN  \E k \in 1 .. Len(names) :
            \/ contains(lower(device.label), lower(names[k]))
            \/ contains(lower(device.category), lower(names[k]))

ProposalsFor(proposals, device) ==
    {proposals[i] : i \in {j \in 1 .. Len(proposals) : proposals[j].deviceId = device.id}}

\* C13 as stated: every returned proposal for a critical device matched by
\* do_not_turn_off has action_type suggest_manual.
C13_OnlySuggestManual ==
    ProposeReturned =>
        \A d \in DevicesOf(ret) :
            (Critical(d) /\ Protected(d, ret)) =>
                \A p \in ProposalsFor(ret.result, d) : p.action_type = "suggest_manual"

\* C13 amended: no returned proposal for a critical device matched by
\* do_not_turn_off has action_type turn_off or schedule; every one has
\* action_type suggest_manual, set_mode or replace.
C13_NoTurnOffOrSchedule ==
    ProposeReturned =>
        \A d \in DevicesOf(ret) :
            (Critical(d) /\ Protected(d, ret)) =>
                \A p \in ProposalsFor(ret.result, d) :
                    /\ p.action_type \notin {"turn_off", "schedule"}
                    /\ p.action_type \in {"suggest_manual", "set_mode", "replace"}

C13_Witness ==
    /\ ProposeReturned
    /\ \E d \in DevicesOf(ret) :
          /\ Critical(d) /\ Protected(d, ret)
          /\ \E p, q \in ProposalsFor(ret.result, d) :
                p.action_type = "suggest_manual" /\ q.action_type = "set_mode"

\* The candidates for a device that carry the sentence a calculator puts into
\* its rationale, and the calculators invoked for a device.
DerivedFor(candidates, device, sentence) ==
    {c \in ProposalsFor(candidates, device) :
        \E i \in 1 .. Len(c.rationale) : c.rationale[i] = sentence}

PlugSentence == "Smart plug eliminates standby draw during idle time."

ScheduleSentence == "Scheduling off during quiet hours saves eliminated standby."

TurnOffSentence == "Manually unplugging when not in use eliminates standby."

Invoked(call, device, calculator) ==
    \E i \in 1 .. Len(call.locals.calls) : call.locals.calls[i] = <<device.id, calculator>>

QuietHoursOf(call) == get(ConstraintsOf(call), "quiet_hours", DefaultQuietHours)

\* C14: a device with a smart_plug proposal gets no smart_plug-derived candidate
\* when critical and protected, the proposal converted to suggest_manual
\* (feasibility 0.4, critical_device flag, rationale prefixed "[Critical]") when
\* critical only, and the proposal unchanged otherwise.
C14_SmartPlugRow ==
    ProposeReturned =>
        \A d \in DevicesOf(ret) :
            LET p == _compute_smart_plug_saving(d, ret.args[2]).value
                got == DerivedFor(ret.locals.candidates, d, PlugSentence)
            IN  p # NoProposal =>
                    IF Critical(d) /\ Protected(d, ret) THEN got = {}
                    ELSE IF Critical(d)
                    THEN /\ got # {}
                         /\ \A c \in got :
                               /\ c.action_type = "suggest_manual"
                               /\ c.feasibility_score = 400
                               /\ c.safety_flags = Append(p.safety_flags, "critical_device")
                               /\ c.rationale[1] = "[Critical] "
                    ELSE got = {p}

\* C15: a protected device gets no schedule-derived candidate and the schedule
\* calculator is not invoked for it; a critical, unprotected device gets the
\* schedule proposal only converted to suggest_manual with the critical_device
\* flag; a device that is neither gets it unchanged.
C15_ScheduleRow ==
    ProposeReturned =>
        \A d \in DevicesOf(ret) :
            LET got == DerivedFor(ret.locals.candidates, d, ScheduleSentence)
                p == _compute_schedule_saving(d, ret.args[2], QuietHoursOf(ret)).value
                expected == IF p = NoProposal THEN {}
                            ELSE IF Critical(d)
                            THEN {[p EXCEPT !.action_type = "suggest_manual",
                                            !.safety_flags = Append(@, "critical_device")]}
                            ELSE {p}
            IN  IF Protected(d, ret)
                THEN got = {} /\ ~Invoked(ret, d, "schedule")
                ELSE got = expected

\* One call converts the schedule proposal of a critical, unprotected device
\* and adds nothing for a protected device whose schedule would be worth it.
C15_Witness ==
    /\ ProposeReturned
    /\ \E d, e \in DevicesOf(ret) :
          /\ Critical(d) /\ ~Protected(d, ret)
          /\ \E c \in DerivedFor(ret.locals.candidates, d, ScheduleSentence) :
                c.action_type = "suggest_manual"
          /\ Protected(e, ret)
          /\ _compute_schedule_saving(e, ret.args[2], QuietHoursOf(ret)).value
                 # NoProposal
          /\ DerivedFor(ret.locals.candidates, e, ScheduleSentence) = {}

\* C16: the candidate list holds a turn_off proposal for a device only if the
\* device is neither critical nor protected; otherwise the turn_off calculator
\* is not invoked for it and no candidate derives from it.
C16_TurnOffGated ==
    ProposeReturned =>
        \A d \in DevicesOf(ret) :
            (Critical(d) \/ Protected(d, ret)) =>
                /\ ~Invoked(ret, d, "turn_off")
                /\ DerivedFor(ret.locals.candidates, d, TurnOffSentence) = {}
                /\ \A c \in ProposalsFor(ret.locals.candidates, d) :
                      c.action_type # "turn_off"

\* One call holds a turn_off candidate for a device that is neither, and none
\* for a protected device that is not critical.
C16_Witness ==
    /\ ProposeReturned
    /\ \E d, e \in DevicesOf(ret) :
          /\ ~Critical(d) /\ ~Protected(d, ret)
          /\ \E c \in ProposalsFor(ret.locals.candidates, d) : c.action_type = "turn_off"
          /\ ~Critical(e) /\ Protected(e, ret)
          /\ _compute_turn_off_saving(e, ret.args[2]).value # NoProposal

\* The set_mode and replace candidates among a set of candidates.
EcoAndReplace(S) == {c \in S : c.action_type \in {"set_mode", "replace"}}

\* C17: the set_mode and replace candidates built for a device are those built
\* for the same device with any other value of is_critical and under any other
\* do_not_turn_off list, action_type, feasibility_score and safety_flags
\* included.
C17_EcoReplaceUngated ==
    ProposeReturned =>
        \A d \in DevicesOf(ret) :
            \A critical \in BOOLEAN, names \in DoNotTurnOffInputs \cup {<<>>} :
                LET other == DeviceLoop(
                                [candidates |-> <<>>, calls |-> <<>>, raised |-> FALSE],
                                <<[d EXCEPT !.is_critical = critical]>>, ret.args[2],
                                [k \in 1 .. Len(names) |-> lower(names[k])],
                                QuietHoursOf(ret))
                IN  ~other.raised =>
                        EcoAndReplace(ProposalsFor(ret.locals.candidates, d))
                            = EcoAndReplace(ProposalsFor(other.candidates, d))

\* A critical device named in do_not_turn_off has both a set_mode and a replace
\* candidate.
C17_Witness ==
    /\ ProposeReturned
    /\ \E d \in DevicesOf(ret) :
          /\ Critical(d) /\ Protected(d, ret)
          /\ \E c, e \in ProposalsFor(ret.locals.candidates, d) :
                /\ c.action_type = "set_mode" /\ c.feasibility_score = 750
                /\ e.action_type = "replace" /\ e.feasibility_score = 500

\* ------------------------------------------- claims on the LLM optimizer
\* propose_actions_with_llm has returned.
LLMReturned == ret # NoCall /\ ret.op = "propose_actions_with_llm"

\* The response that the returned call had received.
ResponseOf(call) == call.locals.response[1]

\* The JSON of the response that the returned call had received.
ParsedOf(call) == json_loads(StripFence(ResponseOf(call).content))

\* The deterministic optimizer on the arguments of the returned call.
Deterministic(call) ==
    propose_actions(call.args[1], call.args[2], call.args[3], call.args[4])

\* The external path gave nothing to return: no API key, an exception,
\* content that does not parse, or no proposal left by the validation.
ExternalPathFailed(call) ==
    \/ ~call.locals.api_key
    \/ ResponseOf(call).raised
    \/ ParsedOf(call).raised
    \/ call.locals.proposals = <<>>

\* C18: whenever the external path has no API key, throws, returns content
\* that does not parse or leaves no proposal after validation, what
\* propose_actions_with_llm returns is what propose_actions returns for the
\* same devices, assumptions, constraints and top_n.
C18_FallbackIsDeterministic ==
    (LLMReturned /\ ExternalPathFailed(ret))
        => /\ ret.raised = Deterministic(ret).raised
           /\ ret.result = Deterministic(ret).value

\* A response of two items, none of which passes the validation, was answered
\* by the deterministic optimizer with a proposal.
C18_Witness ==
    /\ LLMReturned
    /\ ret.locals.api_key
    /\ ~ResponseOf(ret).raised
    /\ ~ParsedOf(ret).raised
    /\ Len(ProposalsRaw(ParsedOf(ret).value)) = 2
    /\ ret.locals.proposals = <<>>
    /\ ~ret.raised
    /\ ret.result # <<>>

\* The fields of an item that ActionProposal reads as numbers.
NumericFields ==
    {"estimated_annual_kwh_saved", "estimated_annual_dollars_saved",
     "estimated_co2_kg_saved", "estimated_cost_usd", "payback_months",
     "feasibility_score"}

\* An item of the response is valid: it has a deviceId and an action_type of
\* the six known kinds, its numeric fields are numbers and its
\* feasibility_score is within [0, 1].
ItemIsValid(p) ==
    /\ IsDict(p)
    /\ {"deviceId", "action_type"} \subseteq DOMAIN p.dict
    /\ IsStr(p.dict.deviceId)
    /\ IsStr(p.dict.action_type)
    /\ p.dict.action_type.str \in KnownActionTypes
    /\ \A key \in NumericFields \cap DOMAIN p.dict : ToFloat(p.dict[key]).ok
    /\ "feasibility_score" \in DOMAIN p.dict =>
          /\ 0 <= ToFloat(p.dict.feasibility_score).value
          /\ ToFloat(p.dict.feasibility_score).value <= 1000

\* The items of the response that the returned call had received.
ItemsOf(call) == ProposalsRaw(ParsedOf(call).value)

\* C19: when the response holds valid and invalid items, each invalid item is
\* dropped on its own and propose_actions_with_llm returns the valid items in
\* the order of the response (the first top_n of them), without raising and
\* without falling back to propose_actions.
C19_InvalidDroppedIndividually ==
    (/\ LLMReturned
     /\ ret.locals.api_key
     /\ ~ResponseOf(ret).raised
     /\ ~ParsedOf(ret).raised
     /\ \E i \in 1 .. Len(ItemsOf(ret)) : ItemIsValid(ItemsOf(ret)[i])
     /\ \E i \in 1 .. Len(ItemsOf(ret)) : ~ItemIsValid(ItemsOf(ret)[i]))
        => LET valid == SelectSeq(ItemsOf(ret), ItemIsValid)
           IN  /\ ~ret.raised
               /\ ret.result = [k \in 1 .. Min(Len(valid), ret.args[4]) |->
                                   ValidateItem(valid[k])[1]]

\* C20: if the service never answers the awaited call, propose_actions_with_llm
\* still returns in the end (a bounded timeout gives way to propose_actions).
C20_AwaitEventuallyReturns ==
    \A t \in Tasks : (tasks[t].pc = "ainvoke") ~> (tasks[t].pc = "idle")

\* ------------------------------------------ claims on the calculators
\* The first quiet_hours entry of the call has no '-' separator.
FirstQuietHoursUnparseable(call) ==
    /\ QuietHoursOf(call) # <<>>
    /\ Len(split(QuietHoursOf(call)[1], "-")) < 2

\* C21: when the first quiet_hours entry cannot be parsed (it has no '-'
\* separator), propose_actions returns a list without raising, and every
\* candidate derived from a schedule proposal saves the standby draw of 8 hours
\* a day.
C21_UnparseableQuietHoursDefault ==
    (ret.op = "propose_actions" /\ FirstQuietHoursUnparseable(ret))
        => /\ ~ret.raised
           /\ \A d \in DevicesOf(ret) :
                 \A c \in DerivedFor(ret.locals.candidates, d, ScheduleSentence) :
                     c.estimated_annual_kwh_saved =
                        RoundTo2(PerYearKwh(FMul(Watts(d, "standby_watts_typical"),
                                                 Whole(8))))

\* The returned call gave back the items of the LLM that passed the validation.
Accepted(call) == call.locals.api_key /\ call.locals.proposals # <<>>

\* C22: the proposals propose_actions_with_llm returns when it accepts items of
\* the LLM never turn off or schedule a device that is critical or matched by
\* do_not_turn_off.
C22_AcceptedRespectProtection ==
    (LLMReturned /\ Accepted(ret))
        => \A d \in DevicesOf(ret) :
              (Critical(d) \/ Protected(d, ret))
                  => \A p \in ProposalsFor(ret.result, d) :
                        p.action_type \notin {"turn_off", "schedule"}

\* C23: the proposals propose_actions_with_llm returns when it accepts items of
\* the LLM cost at most budget_usd in total and are at most max_actions, and at
\* most top_n, in number.
C23_AcceptedRespectConstraints ==
    (LLMReturned /\ Accepted(ret))
        => /\ SumCost(ret.result) <= BudgetOf(ret)
           /\ Len(ret.result) <= MaxActionsOf(ret)
           /\ Len(ret.result) <= ret.args[4]

\* standby_watts_typical of a device, in tenths of a watt
StandbyOf(device) == get(get(device, "power", <<>>), "standby_watts_typical", 0)

\* C24: for a device with standby_watts_typical < 0.5 the smart_plug calculator
\* returns None, and propose_actions has for that device no smart_plug
\* candidate and no candidate derived from a smart_plug proposal, whatever its
\* criticality or protection.
C24_NoPlugBelowHalfWatt ==
    /\ (ret.op = "_compute_smart_plug_saving" /\ StandbyOf(ret.args[1]) < 5)
          => ~ret.raised /\ ret.result = NoProposal
    /\ ProposeReturned
          => \A d \in DevicesOf(ret) :
                StandbyOf(d) < 5
                    => /\ DerivedFor(ret.locals.candidates, d, PlugSentence) = {}
                       /\ \A c \in ProposalsFor(ret.locals.candidates, d) :
                             c.action_type # "smart_plug"

\* propose_actions returned candidates, none of them from the smart plug, for a
\* critical and protected device that draws 0.4 W in standby.
C24_Witness ==
    /\ ProposeReturned
    /\ \E d \in DevicesOf(ret) :
          /\ StandbyOf(d) = 4
          /\ Critical(d)
          /\ Protected(d, ret)
          /\ Invoked(ret, d, "smart_plug")
          /\ ProposalsFor(ret.locals.candidates, d) # {}

\* C25: the turn_off calculator returns None for standby_watts_typical < 1.0,
\* and otherwise a turn_off proposal of cost 0 and feasibility_score 0.7 that
\* carries the requires_manual_action flag.
C25_TurnOffCalculator ==
    ret.op = "_compute_turn_off_saving"
        => /\ ~ret.raised
           /\ IF StandbyOf(ret.args[1]) < 10
              THEN ret.result = NoProposal
              ELSE /\ ret.result # NoProposal
                   /\ ret.result.action_type = "turn_off"
                   /\ ret.result.estimated_cost_usd = 0
                   /\ ret.result.parameters.cost_usd = 0
                   /\ ret.result.feasibility_score = 700
                   /\ \E i \in 1 .. Len(ret.result.safety_flags) :
                         ret.result.safety_flags[i] = "requires_manual_action"

\* The turn_off calculator returned a proposal for a standby draw of exactly
\* 1.0 W.
C25_Witness ==
    /\ ret.op = "_compute_turn_off_saving"
    /\ StandbyOf(ret.args[1]) = 10
    /\ ret.result # NoProposal

\* 100 * (watts_saved * active_hours + standby_saved * standby_hours) of the
\* replace calculator: its sign is the sign of dollars_saved (the rate is
\* positive).
ReplaceSavingTimes100(device, assumptions) ==
    LET active == get(get(device, "power", <<>>), "active_watts_typical", 0)
        standby == StandbyOf(device)
        hours == ActiveHours(device, assumptions)
        new_standby_times_100 == IF 30 > 5 * standby THEN 30 ELSE 5 * standby
    IN  3 * active * hours + (10 * standby - new_standby_times_100) * (24 - hours)

\* C30: the replace calculator returns None whenever the dollars saved it
\* computes are zero or negative, and a proposal it returns has estimated
\* annual dollars saved above zero.
C30_ReplaceSavesMoney ==
    ret.op = "_compute_replace_saving"
        => /\ ~ret.raised
           /\ ReplaceSavingTimes100(ret.args[1], ret.args[2]) <= 0
                 => ret.result = NoProposal
           /\ ret.result # NoProposal
                 => ret.result.estimated_annual_dollars_saved > 0

\* The replace calculator returned None for a device whose standby draw of
\* 0.2 W is below that of its replacement and whose active draw is 0.
C30_Witness ==
    /\ ret.op = "_compute_replace_saving"
    /\ StandbyOf(ret.args[1]) = 2
    /\ ReplaceSavingTimes100(ret.args[1], ret.args[2]) < 0
    /\ ret.result = NoProposal

RECURSIVE SumDollars(_)
SumDollars(proposals) ==
    IF proposals = <<>> THEN 0
    ELSE Head(proposals).estimated_annual_dollars_saved + SumDollars(Tail(proposals))

\* The most dollars saved by any choice of at most count of the candidates
\* i, i + 1, ... whose costs sum to at most budget (the knapsack optimum).
RECURSIVE BestTotal(_, _, _, _)
BestTotal(candidates, i, budget, count) ==
    IF i > Len(candidates) \/ count = 0 THEN 0
    ELSE IF candidates[i].estimated_cost_usd > budget
    THEN BestTotal(candidates, i + 1, budget, count)
    ELSE TheOne({ IF skip < take THEN take ELSE skip :
                    skip \in {BestTotal(candidates, i + 1, budget, count)},
                    take \in {candidates[i].estimated_annual_dollars_saved
                              + BestTotal(candidates, i + 1,
                                          budget - candidates[i].estimated_cost_usd,
                                          count - 1)} })

\* The knapsack optimum for the candidates and constraints of the call.
BestOf(call) ==
    BestTotal(call.locals.candidates, 1, BudgetOf(call),
              Min(MaxActionsOf(call), call.args[4]))

\* C26: the selection of propose_actions is greedy, not an optimal knapsack:
\* its total estimated_annual_dollars_saved never exceeds that of the best
\* subset within the same budget and count, and (witness) for some candidates,
\* budget and max_actions it is strictly less.
C26_GreedyAtMostBest ==
    ProposeReturned => SumDollars(ret.result) <= BestOf(ret)

\* With max_actions = 1 and a budget that allows a replacement, the selection
\* saves strictly less than the best subset.
C26_Witness ==
    /\ ProposeReturned
    /\ MaxActionsOf(ret) = 1
    /\ ret.result # <<>>
    /\ SumDollars(ret.result) < BestOf(ret)

\* ------------------------------------------ claims on the agent endpoint
\* agent_command_endpoint answered a command with a turn-off intent.
AutoExecuted ==
    /\ ret.op = "agent_command_endpoint"
    /\ ~ret.raised
    /\ ret.result.auto_executed

\* The stored actions whose ids were handed to execute_actions.
PassedToExecute ==
    {doc \in {store[i] : i \in 1 .. Len(store)} :
        \E k \in 1 .. Len(ret.locals.safe_ids) : ret.locals.safe_ids[k] = doc._id}

\* C27: with a turn-off intent, no stored action of a device with
\* is_critical = true is passed to execute_actions, and no smart_plug or replace
\* proposal is auto-executed.
C27_AutoExecuteOnlySafe ==
    AutoExecuted
        => \A doc \in PassedToExecute :
              /\ doc.action_type \notin {"smart_plug", "replace"}
              /\ \A i \in 1 .. Len(ret.args.devices) :
                    ret.args.devices[i].id = doc.deviceId
                        => ~ret.args.devices[i].is_critical

\* ------------------------------------ claims on the states of an action
StoredDocs == {store[i] : i \in 1 .. Len(store)}

\* C28: after any sequence of calls that do not overlap, a proposed action has
\* neither executedAt nor revertedAt, an executed one has executedAt only, a
\* reverted one has both and a failed one has neither.
C28_StampsMatchStatus ==
    \A doc \in StoredDocs :
        /\ doc.status = "proposed"
              => doc.executedAt = NoTime /\ doc.revertedAt = NoTime
        /\ doc.status = "executed"
              => doc.executedAt # NoTime /\ doc.revertedAt = NoTime
        /\ doc.status = "reverted"
              => doc.executedAt # NoTime /\ doc.revertedAt # NoTime
        /\ doc.status = "failed"
              => doc.executedAt = NoTime /\ doc.revertedAt = NoTime

\* The collection holds a reverted action next to a failed one.
C28_Witness ==
    /\ \E doc \in StoredDocs : doc.status = "reverted"
    /\ \E doc \in StoredDocs : doc.status = "failed"

\* C29: no call puts an action into status scheduled: the status of every
\* stored action is proposed, executed, failed or reverted.
C29_NeverScheduled ==
    \A doc \in StoredDocs : doc.status \in {"proposed", "executed", "failed", "reverted"}

\* execute_actions has just returned and the collection holds an executed
\* action next to one that was not executed.
C29_Witness ==
    /\ ret.op = "execute_actions"
    /\ \E doc \in StoredDocs : doc.status = "executed"
    /\ \E doc \in StoredDocs : doc.status \in {"proposed", "failed"}

====
